---- MODULE Spec2Model ----
(***************************************************************************)
(* Model of main.py (antoni-ia-fastapi): the persisted status record, the  *)
(* reconciling read, the update primitive and the endpoint handlers that   *)
(* wake, shut down and resynchronise the remote host.                      *)
(*                                                                         *)
(* A handler is an asyncio coroutine: it runs atomically between two       *)
(* awaits that really suspend (check_host_connectivity, the httpx GET).    *)
(* Each action below is one such segment of one request.  The paramiko     *)
(* calls are synchronous, so a whole power-off sequence lies inside one    *)
(* segment.                                                                *)
(*                                                                         *)
(* Spec    : requests to the endpoints that use the record interleave at   *)
(*           their awaits, two in flight at most, each with a valid key.   *)
(* SeqSpec : requests are processed one at a time, over every endpoint     *)
(*           and every kind of key.                                        *)
(* TimeSpec: as SeqSpec, with a wall clock that advances between steps.    *)
(*           In Spec and SeqSpec the clock stands still.                   *)
(* FaultSpec: requests are processed one at a time while the reading of    *)
(*           the files, the writing of status.json or send_magic_packet    *)
(*           may fail.                                                     *)
(* Spec, SeqSpec and TimeSpec assume that the local file operations and    *)
(* send_magic_packet do not raise; probe, service and SSH outcomes are     *)
(* unconstrained in all four.                                              *)
(***************************************************************************)
EXTENDS Integers, FiniteSets, Sequences, TLC

\* Bounds of the model.  Wake requests are accepted while the persisted
\* counter is below MaxCounter; in a run of Spec at most MaxOverlaps requests
\* are accepted while another request is in flight.
MaxCounter == 2

MaxOverlaps == 1

\* In a run of TimeSpec the clock advances while it is below MaxClock.
MaxClock == 3

\* The most chunks the upstream holds for one streamed reply
MaxChunks == 2

Procs == {1, 2}

VARIABLES
    status_file,   \* status/status.json : [exists, data]
    base_file,     \* status/base.json   : [exists, data] (read-only)
    req,           \* per request slot: the handler's position and locals
    run,           \* history of the sequential run since initialisation
    overlaps,      \* requests accepted so far while another was in flight
    clock,         \* what datetime.utcnow() returns, as a number of ticks
    fault          \* the local operation that raises when called, if any

vars == <<status_file, base_file, req, run, overlaps, clock, fault>>

\* What can fail locally: open or json.load inside read_status, the open or
\* json.dump inside write_status, send_magic_packet
Faults == {"none", "load", "write_status", "send_magic_packet"}

----------------------------------------------------------------------------
\* Pure parts of the state store

\* The dict read_status builds when neither file exists; its datetime is
\* the time it is built
default_status ==
    [logical_on |-> FALSE, phisical_on |-> FALSE, peticions_ollama |-> 0,
     permanent_on |-> FALSE, message |-> "Equip desconnectat",
     datetime |-> clock]

\* The datetime base.json carries: a time before the process started
BaseDatetime == 0

base_status ==
    [logical_on |-> FALSE, phisical_on |-> FALSE, peticions_ollama |-> 0,
     permanent_on |-> FALSE, message |-> "Equip offline",
     datetime |-> BaseDatetime]

\* A local that holds no dict
no_status ==
    [logical_on |-> FALSE, phisical_on |-> FALSE, peticions_ollama |-> 0,
     permanent_on |-> FALSE, message |-> "", datetime |-> BaseDatetime]

NoFile == [exists |-> FALSE, data |-> no_status]

\* Mutant: the dict is dumped with the datetime it came with
write_status_keeps_datetime(status_data) == [exists |-> TRUE, data |-> status_data]

\* write_status modifies the dict it is given: what the caller holds after
\* the call
stamped(status_data) == [status_data EXCEPT !.datetime = clock]

\* write_status: sets the dict's datetime to the time of the call, then the
\* whole dict replaces the file.  An exception of open or json.dump is
\* printed and swallowed: the file stays as it is.
write_status(status_data) ==
    IF fault = "write_status" THEN status_file
    ELSE [exists |-> TRUE, data |-> stamped(status_data)]

\* send_magic_packet raises when it is called
send_magic_packet_raises == fault = "send_magic_packet"

\* read_status: open or json.load raises on the file it goes to read
load_raises(file, base) == fault = "load" /\ (file.exists \/ base.exists)

\* Mutant: the template is ignored, the record starts from the defaults
read_status_load_ignores_base(file, base) ==
    IF file.exists
    THEN [current_status |-> file.data, file |-> file]
    ELSE [current_status |-> stamped(default_status),
          file |-> write_status(default_status)]

\* read_status, first part: load status.json, creating it from base.json or
\* from the defaults.  Gives the loaded dict and the file afterwards.
read_status_load(file, base) ==
    IF file.exists
    THEN [current_status |-> file.data, file |-> file]
    ELSE IF base.exists
         THEN [current_status |-> stamped(base.data),
               file |-> write_status(base.data)]
         ELSE [current_status |-> stamped(default_status),
               file |-> write_status(default_status)]

\* Ways sock.connect can end inside check_host_connectivity: "Exception" is
\* an exception that is not an OSError (a host that is not a string, an
\* executor that no longer takes work)
HostOutcomes == {"connected", "refused", "timeout", "Exception"}

\* check_host_connectivity: timeouts and socket errors become False, any
\* other exception leaves the function
check_host_connectivity(host) ==
    [raised |-> host = "Exception", value |-> host = "connected"]

\* Outcomes of the GET /api/tags health request
OllamaOutcomes == {"200", "non200", "ConnectError", "TimeoutException", "Exception"}

ollama_is_online(outcome) == outcome = "200"

\* mensaje built by read_status from what it observed
read_status_mensaje(host, outcome) ==
    IF check_host_connectivity(host).raised THEN "Error en verificar connectivitat"
    ELSE IF ~check_host_connectivity(host).value THEN "Equip no accessible"
    ELSE CASE outcome = "200" -> "Equip i Ollama funcionant correctament"
           [] outcome = "non200" -> "Equip online pero Ollama ha respost amb codi"
           [] outcome = "ConnectError" -> "Equip online pero no es pot connectar a Ollama"
           [] outcome = "TimeoutException" -> "Equip online pero Ollama no respon (timeout)"
           [] OTHER -> "Equip online pero error en verificar Ollama"

\* Mutant: the health request's last except clause is missing
read_status_observe_uncaught(host, outcome) ==
    LET equipo_online == check_host_connectivity(host).value
    IN [raised |-> equipo_online /\ outcome = "Exception",
        equipo_online |-> equipo_online,
        ollama_online |-> equipo_online /\ ollama_is_online(outcome),
        mensaje |-> read_status_mensaje(host, outcome)]

\* read_status, middle part: the two probes inside their try blocks.  The
\* service is asked only when the host answered; no outcome leaves the
\* blocks as an exception.
read_status_observe(host, outcome) ==
    LET equipo_online == check_host_connectivity(host).value
    IN [raised |-> FALSE,
        equipo_online |-> equipo_online,
        ollama_online |-> equipo_online /\ ollama_is_online(outcome),
        mensaje |-> read_status_mensaje(host, outcome)]

\* read_status, outer except clause: the dict it returns instead
error_status ==
    [logical_on |-> FALSE, phisical_on |-> FALSE, peticions_ollama |-> 0,
     permanent_on |-> FALSE, message |-> "Error llegint estat",
     datetime |-> clock]

\* Mutant: only the host flag is compared
flags_changed_host_only(current_status, equipo_online, ollama_online) ==
    current_status.phisical_on # equipo_online

flags_changed(current_status, equipo_online, ollama_online) ==
    \/ current_status.logical_on # ollama_online
    \/ current_status.phisical_on # equipo_online

\* Mutant: the service flag is not overwritten
read_status_reconcile_host_flag_only(file, current_status, equipo_online, ollama_online, mensaje) ==
    IF flags_changed(current_status, equipo_online, ollama_online)
    THEN LET s == [current_status EXCEPT
                      !.phisical_on = equipo_online,
                      !.message = "Estat verificat: " \o mensaje]
         IN [status |-> stamped(s), file |-> write_status(s)]
    ELSE [status |-> current_status, file |-> file]

\* read_status, last part: overwrite both flags and persist when an observed
\* flag differs from the loaded one.  Gives the returned dict and the file.
read_status_reconcile(file, current_status, equipo_online, ollama_online, mensaje) ==
    IF flags_changed(current_status, equipo_online, ollama_online)
    THEN LET s == [current_status EXCEPT
                      !.logical_on = ollama_online,
                      !.phisical_on = equipo_online,
                      !.message = "Estat verificat: " \o mensaje]
         IN [status |-> stamped(s), file |-> write_status(s)]
    ELSE [status |-> current_status, file |-> file]

\* Mutant: the updates are dropped
dict_update_dropped(status, updates) == status

\* dict.update
dict_update(status, updates) ==
    [k \in DOMAIN status |-> IF k \in DOMAIN updates THEN updates[k] ELSE status[k]]

\* update_status after its read_status returned: merge, set message, persist
update_status_merge(status, updates, message) ==
    [dict_update(status, updates) EXCEPT !.message = message]

----------------------------------------------------------------------------
\* The power-off sequence over paramiko (apagar_equipo and shutdown_force
\* carry the same code).  An outcome names where the sequence ended:
\*   ok             sudo shutdown exited 0
\*   auth           AuthenticationException on the first connect
\*   error          any other exception on the first session
\*   exec_error     the first connect succeeded, exec_command raised
\*   fallback_ok    sudo exited non-zero, plain shutdown exited 0
\*   fallback_fail  both commands exited non-zero
\*   fallback_auth  AuthenticationException on the fallback connect
\*   fallback_error any other exception of the fallback connect
\*   fallback_exec_error  the fallback connect succeeded, exec_command raised
SshOutcomes ==
    {"ok", "auth", "error", "exec_error", "fallback_ok", "fallback_fail",
     "fallback_auth", "fallback_error", "fallback_exec_error"}

\* What the paramiko calls of the sequence answer under each outcome: the
\* connect of the first client, the privileged command, the connect of the
\* fallback client, the plain command.  A call the code does not reach is
\* given an answer all the same.
ssh_calls(ssh) ==
    [connect |-> CASE ssh = "auth" -> "AuthenticationException"
                   [] ssh = "error" -> "Exception"
                   [] OTHER -> "ok",
     sudo |-> CASE ssh = "ok" -> "0"
                [] ssh = "exec_error" -> "Exception"
                [] OTHER -> "1",
     connect2 |-> CASE ssh = "fallback_auth" -> "AuthenticationException"
                    [] ssh = "fallback_error" -> "Exception"
                    [] OTHER -> "ok",
     plain |-> CASE ssh = "fallback_ok" -> "0"
                 [] ssh = "fallback_exec_error" -> "Exception"
                 [] OTHER -> "1"]

ssh_event(call, client, result) ==
    [call |-> call, client |-> client, result |-> result]

\* The first session: connect, the privileged command, close.  `raised` is
\* the exception that left the block, `exit` the command's exit status.
power_off_first(c) ==
    IF c.connect # "ok"
    THEN [events |-> <<ssh_event("connect", 1, c.connect)>>,
          raised |-> c.connect, exit |-> "none", client |-> 1]
    ELSE IF c.sudo = "Exception"
    THEN [events |-> <<ssh_event("connect", 1, "ok"),
                       ssh_event("sudo shutdown", 1, "Exception")>>,
          raised |-> "Exception", exit |-> "none", client |-> 1]
    ELSE [events |-> <<ssh_event("connect", 1, "ok"),
                       ssh_event("sudo shutdown", 1, c.sudo),
                       ssh_event("close", 1, "ok")>>,
          raised |-> "none", exit |-> c.sudo, client |-> 1]

\* Mutant: the fallback is tried after any failure of the first session
power_off_fallback_after_any_failure(first) ==
    first.exit # "0" /\ first.raised # "AuthenticationException"

\* `if exit_status != 0`, reached when the first session raised nothing
power_off_fallback_due(first) == first.raised = "none" /\ first.exit # "0"

\* The except clauses around the fallback session turn every exception,
\* whatever its class, into the HTTPException 500
power_off_fallback_raised(raised) == "HTTPException 500"

\* The fallback session: a new client, connect, the plain command, close
power_off_fallback(c) ==
    IF c.connect2 # "ok"
    THEN [events |-> <<ssh_event("connect", 2, c.connect2)>>,
          raised |-> power_off_fallback_raised(c.connect2),
          exit |-> "none", client |-> 2]
    ELSE IF c.plain = "Exception"
    THEN [events |-> <<ssh_event("connect", 2, "ok"),
                       ssh_event("shutdown", 2, "Exception")>>,
          raised |-> power_off_fallback_raised("Exception"),
          exit |-> "none", client |-> 2]
    ELSE [events |-> <<ssh_event("connect", 2, "ok"),
                       ssh_event("shutdown", 2, c.plain),
                       ssh_event("close", 2, "ok")>>,
          raised |-> IF c.plain # "0" THEN "HTTPException 500" ELSE "none",
          exit |-> c.plain, client |-> 2]

\* Mutant: there is no finally clause
power_off_finally_missing(events, client) == events

\* The finally clause closes the client that `ssh` names by then
power_off_finally(events, client) ==
    Append(events, ssh_event("close", client, "ok"))

\* The whole sequence, as apagar_equipo and shutdown_force run it: what was
\* called, in order, and how the handler answers
power_off_sequence(c) ==
    LET first == power_off_first(c)
        second == power_off_fallback(c)
        last == IF power_off_fallback_due(first) THEN second ELSE first
        events == IF power_off_fallback_due(first)
                  THEN first.events \o second.events ELSE first.events
    IN [events |-> power_off_finally(events, last.client),
        ok |-> last.raised = "none",
        status_code |-> CASE last.raised = "none" -> 200
                          [] last.raised = "AuthenticationException" -> 401
                          [] OTHER -> 500]

\* How the handler comes out of the sequence under an outcome
ssh_shutdown(ssh) ==
    LET q == power_off_sequence(ssh_calls(ssh))
    IN [ok |-> q.ok, status_code |-> q.status_code]

----------------------------------------------------------------------------
\* Requests

\* Endpoints that use the status record
Ops == {"arrancar_equipo", "apagar_equipo", "permanent_on_enable",
        "permanent_on_disable", "get_status", "init_status", "test_ia",
        "shutdown_force"}

\* /ollama/* endpoints; the first three take a `stream` field
ProxyOps == {"ollama_generate", "ollama_chat", "ollama_pull",
             "ollama_delete", "ollama_show"}

StreamOps == {"ollama_generate", "ollama_chat", "ollama_pull"}

\* Endpoints declared with dependencies=[Security(verify_api_key)]
ProtectedOps == Ops \cup ProxyOps \cup {"lista_modelos", "debug_info"}

\* The X-API-Key header of a request: absent (auto_error=False gives None),
\* empty, a configured key, any other string
Missing == "<missing>"

Tokens == {Missing, "", "k1", "bad"}

\* API_KEYS as split(",") leaves it for API_KEYS=k1, in the environment
API_KEYS == {"k1", ""}

\* Mutant: the emptiness test is dropped
verify_api_key_membership_only(api_key) == api_key \in API_KEYS

\* verify_api_key: TRUE when the key is returned, FALSE when it raises 401
verify_api_key(api_key) ==
    ~(api_key = Missing \/ api_key = "" \/ api_key \notin API_KEYS)

no_updates == [k \in {} |-> FALSE]

\* read_status: its locals equipo_online and ollama_online before a probe
not_observed == [equipo_online |-> FALSE, ollama_online |-> FALSE]

idle_req ==
    [op |-> "idle", pc |-> "idle", caller |-> "handler",
     endpoint |-> "idle",                \* the route the request asked for
     api_key |-> Missing,                \* the key the request carried
     observed |-> not_observed,          \* read_status: what its probes gave
     health |-> "none",                  \* how the GET /api/tags ended, if made
     probe_raised |-> FALSE,             \* the handler's own probe raised
     ssh |-> "none",                     \* how the power-off sequence ended
     stream |-> FALSE,                   \* proxy: the request's stream field
     upstream |-> "none",                \* proxy: how the upstream request ended
     upstream_code |-> 0,                \* proxy: response.status_code, if any
     client |-> "none",                  \* proxy: the AsyncClient, when the
                                         \* upstream request is to be made
     offered |-> <<>>,                   \* stream: the chunks the upstream holds
     relayed |-> <<>>,                   \* stream: the chunks the caller got
     loaded |-> no_status,               \* read_status: current_status
     current_status |-> no_status,       \* handler: dict read_status returned
     new_status |-> no_status,           \* init_status: dict update_status returned
     equipo_online |-> FALSE, ollama_online |-> FALSE,
     new_peticions |-> 0,
     reason |-> "",                      \* apagar_equipo: why it does not power off
     stale |-> FALSE,                    \* history: see update_status_stale
     replaced |-> BaseDatetime,          \* history: datetime of the record that
                                         \* the write of update_status replaced
     updates |-> no_updates, message |-> "",
     status_code |-> 0, success |-> FALSE,
     powered |-> FALSE,                  \* the power-off sequence was invoked
     wol |-> FALSE,                      \* send_magic_packet was called
     wol_raised |-> FALSE]               \* send_magic_packet raised

\* Locals of read_status and update_status end with the call
returned(r) ==
    [r EXCEPT !.loaded = idle_req.loaded, !.updates = idle_req.updates,
              !.message = idle_req.message, !.caller = idle_req.caller]

\* The handler's response
respond(r, status_code, success) ==
    [returned(r) EXCEPT !.pc = "done", !.status_code = status_code,
                        !.success = success]

\* arrancar_equipo and apagar_equipo read two keys of the dict read_status
\* gave them; the rest of it is dead from then on
counter_and_override(status) ==
    [no_status EXCEPT !.peticions_ollama = status.peticions_ollama,
                           !.permanent_on = status.permanent_on]

\* History: the counter update_status is about to overwrite (`status` is
\* the file's content) is not the one the handler computed its update from
update_status_stale(r, status) ==
    /\ r.op \in {"arrancar_equipo", "apagar_equipo"}
    /\ status.peticions_ollama # r.current_status.peticions_ollama

\* The code that follows `await read_status()` in its caller, to the next
\* suspension.  `rec` is the dict read_status returned and the file it left.
after_read_status(q, rec, file) ==
    IF q.caller = "update_status"
    THEN LET s == update_status_merge(rec.status, q.updates, q.message)
             u == [q EXCEPT !.stale = update_status_stale(q, file.data),
                            !.replaced = file.data.datetime]
         IN [req |-> respond(IF q.op = "init_status"
                                 THEN [u EXCEPT !.new_status = stamped(s)]
                                 ELSE u,
                             200, TRUE),
             file |-> write_status(s)]
    ELSE IF q.op = "get_status"
    THEN [req |-> respond([q EXCEPT !.current_status = rec.status], 200, TRUE),
          file |-> rec.file]
    ELSE [req |-> [returned(q) EXCEPT
                      !.current_status = counter_and_override(rec.status),
                      !.pc = "check_host"],
          file |-> rec.file]

\* `await read_status()` up to its first suspension
read_status_call(r, file, base) ==
    LET l == read_status_load(file, base)
    IN IF load_raises(file, base)
       THEN after_read_status([r EXCEPT !.caller = "handler"],
                [status |-> error_status, file |-> file], file)
       ELSE [req |-> [r EXCEPT !.pc = "read_status:host", !.caller = "handler",
                               !.loaded = l.current_status],
             file |-> l.file]

\* `await update_status(updates, message)` up to its first suspension
update_status_call(r, file, base, updates, message) ==
    LET l == read_status_load(file, base)
    IN IF load_raises(file, base)
       THEN after_read_status([r EXCEPT !.caller = "update_status",
                                        !.updates = updates, !.message = message],
                [status |-> error_status, file |-> file], file)
       ELSE [req |-> [r EXCEPT !.pc = "read_status:host", !.caller = "update_status",
                               !.loaded = l.current_status,
                               !.updates = updates, !.message = message],
             file |-> l.file]

\* What read_status observed is looked at again only for the requests that
\* make no probe of their own
keeps_observed(op) ==
    op \in {"get_status", "permanent_on_enable", "permanent_on_disable"}

\* read_status returns: the code that runs until the request next suspends.
\* `outcome` is "none" when the health request was not made.
read_status_return(r, file, host, outcome) ==
    LET obs == read_status_observe(host, outcome)
        rec == IF obs.raised
               THEN [status |-> error_status, file |-> file]
               ELSE read_status_reconcile(file, r.loaded, obs.equipo_online,
                        obs.ollama_online, obs.mensaje)
        q == IF keeps_observed(r.op)
             THEN [r EXCEPT !.observed = [equipo_online |-> obs.equipo_online,
                                          ollama_online |-> obs.ollama_online],
                            !.health = outcome]
             ELSE r
    IN after_read_status(q, rec, file)

----------------------------------------------------------------------------
\* Handler logic between the direct probe and the next suspension

\* Mutant: the increment is lost
arrancar_new_peticions_same(current_status) == current_status.peticions_ollama

\* Mutant: a wake is not counted while the override is set
arrancar_new_peticions_unless_override(current_status) ==
    IF current_status.permanent_on THEN current_status.peticions_ollama
    ELSE current_status.peticions_ollama + 1

\* arrancar_equipo: the counter always increments
arrancar_new_peticions(current_status) == current_status.peticions_ollama + 1

\* Mutant: the decrement without its floor
apagar_new_peticions_unfloored(current_status) ==
    current_status.peticions_ollama - 1

\* apagar_equipo: the counter decrements, floored at 0
apagar_new_peticions(current_status) ==
    IF current_status.peticions_ollama - 1 > 0
    THEN current_status.peticions_ollama - 1 ELSE 0

\* Mutant: the override is not consulted
should_shutdown_ignoring_override(new_peticions, permanent_on) ==
    new_peticions < 1

\* Mutant: the comparison is off by one
should_shutdown_below_two(new_peticions, permanent_on) ==
    (new_peticions < 2) /\ (~permanent_on)

should_shutdown_physically(new_peticions, permanent_on) ==
    (new_peticions < 1) /\ (~permanent_on)

\* Mutant: the forced shutdown honours the override
shutdown_force_honours_override(equipo_online, persisted) ==
    equipo_online /\ ~persisted.permanent_on

\* shutdown_force goes to the power-off sequence whenever its probe
\* succeeded; it reads nothing of the persisted record to decide
shutdown_force_powers_off(equipo_online, persisted) == equipo_online

\* Mutant: the flags are left as they were
apagar_offline_updates_counter_only(new_peticions) ==
    "peticions_ollama" :> new_peticions

\* apagar_equipo, host already off: what it persists
apagar_offline_updates(new_peticions) ==
    ("peticions_ollama" :> new_peticions) @@
    ("phisical_on" :> FALSE) @@ ("logical_on" :> FALSE)

\* Mutant: the service is marked as responding along with the host
arrancar_online_updates_marks_service(new_peticions) ==
    ("peticions_ollama" :> new_peticions) @@
    ("phisical_on" :> TRUE) @@ ("logical_on" :> TRUE)

\* arrancar_equipo, host already on: what it persists
arrancar_online_updates(new_peticions) ==
    ("peticions_ollama" :> new_peticions) @@ ("phisical_on" :> TRUE)

\* Mutant: a positive counter is named before the override
apagar_reason_counter_first(new_peticions, permanent_on) ==
    IF new_peticions >= 1
    THEN "hi ha " \o ToString(new_peticions) \o " peticio(ns) activa(es)"
    ELSE "permanent_on activat"

\* apagar_equipo, no power-off due: the reason its response names
apagar_reason(new_peticions, permanent_on) ==
    IF permanent_on THEN "permanent_on activat"
    ELSE "hi ha " \o ToString(new_peticions) \o " peticio(ns) activa(es)"

\* Mutant: the reset leaves the override
full_reset_keeps_override ==
    ("logical_on" :> FALSE) @@ ("phisical_on" :> FALSE) @@ ("peticions_ollama" :> 0)

full_reset ==
    ("permanent_on" :> FALSE) @@ ("logical_on" :> FALSE) @@
    ("phisical_on" :> FALSE) @@ ("peticions_ollama" :> 0)

\* mensaje built by test_ia from its own probes
test_ia_mensaje(host, outcome) == read_status_mensaje(host, outcome)

\* mensaje built by init_status from its own probes
init_status_mensaje(host, outcome) ==
    IF host # "connected" THEN "Init: Equip apagat o no accessible"
    ELSE "Init: " \o read_status_mensaje(host, outcome)

\* Mutant: the except clauses mark the host off
apagar_on_failure_marks_off(file) ==
    write_status([file.data EXCEPT !.logical_on = FALSE, !.phisical_on = FALSE,
                     !.peticions_ollama = IF @ > 0 THEN @ - 1 ELSE 0])

\* apagar_equipo, the power-off sequence raised: the except clauses turn the
\* exception into a response and write nothing
apagar_on_failure(file) == file

\* Mutant: the except clauses reset the record
shutdown_force_on_failure_resets(file) ==
    write_status([file.data EXCEPT !.logical_on = FALSE, !.phisical_on = FALSE,
                     !.peticions_ollama = 0, !.permanent_on = FALSE])

\* shutdown_force, the power-off sequence raised: the except clauses turn
\* the exception into a response and write nothing
shutdown_force_on_failure(file) == file

\* Mutant: a proxy records the host as off when its probe failed
proxy_marks_host_off(file, equipo_online) ==
    IF equipo_online THEN file
    ELSE write_status([file.data EXCEPT !.phisical_on = FALSE, !.logical_on = FALSE])

\* lista_modelos and /ollama/*: no call of read_status, update_status or
\* write_status on any path; the file after a segment is the file before
proxy_file(file, equipo_online) == file

\* Status codes an upstream answers with when it does not answer 200
UpstreamErrorCodes == {404, 500}

\* Mutant: an unreachable host is reported as an internal error
proxy_unreachable_status_internal(op) == 500

\* /ollama/*: the status raised when the probe returned False
proxy_unreachable_status(op) == 503

\* Mutant: a timeout of the upstream is reported as a connect failure
proxy_upstream_status_timeout_as_connect(outcome, code) ==
    CASE outcome = "200" -> 200
      [] outcome = "non200" -> code
      [] outcome \in {"ConnectError", "TimeoutException"} -> 503
      [] OTHER -> 500

\* /ollama/*, buffered: the status the handler ends with for each way the
\* upstream request can end (`code` is the upstream's status when not 200)
proxy_upstream_status(outcome, code) ==
    CASE outcome = "200" -> 200
      [] outcome = "non200" -> code
      [] outcome = "ConnectError" -> 503
      [] outcome = "TimeoutException" -> 504
      [] OTHER -> 500

\* lista_modelos answers 200 with success=False where the others raise;
\* only an unexpected exception becomes a 500
lista_modelos_status(outcome) == IF outcome = "Exception" THEN 500 ELSE 200

----------------------------------------------------------------------------
\* History of the run, kept while requests are processed one at a time.
\* phase "wakes": since the record was initialised (counter 0, permanent_on
\* false) only successful wake calls completed, after permanent-on toggles
\* if any; phase "downs": the wake calls were followed by successful
\* shutdown-requests on a reachable host, no more of them than wake calls;
\* "other": anything else.
run_init ==
    [phase |-> "wakes", wakes |-> 0, downs |-> 0,
     wol |-> 0,            \* wake signals sent
     offs |-> 0,           \* power-off sequences invoked
     unreachable |-> TRUE, \* every wake call found the host unreachable
     reachable |-> TRUE,   \* every wake call found the host reachable
     toggled |-> FALSE,    \* a permanent-on toggle came before the wake calls
     toggle |-> "none"]    \* the last toggle, only status reads since

run_other ==
    [run_init EXCEPT !.phase = "other", !.unreachable = FALSE, !.reachable = FALSE]

run_phase(h, r) ==
    IF r.op = "init_status" /\ r.success THEN run_init
    ELSE IF /\ h.phase = "wakes" /\ h.wakes = 0 /\ r.success
            /\ r.op \in {"permanent_on_enable", "permanent_on_disable"}
    THEN [h EXCEPT !.toggled = TRUE]
    ELSE IF h.phase = "wakes" /\ r.op = "arrancar_equipo" /\ r.success
    THEN [h EXCEPT !.wakes = @ + 1,
                   !.wol = @ + (IF r.wol THEN 1 ELSE 0),
                   !.unreachable = @ /\ ~r.equipo_online,
                   !.reachable = @ /\ r.equipo_online]
    ELSE IF /\ h.phase \in {"wakes", "downs"} /\ h.downs < h.wakes
            /\ r.op = "apagar_equipo" /\ r.success /\ r.equipo_online
    THEN [h EXCEPT !.phase = "downs", !.downs = @ + 1,
                   !.offs = @ + (IF r.powered THEN 1 ELSE 0)]
    ELSE run_other

run_next(h, r) ==
    [run_phase(h, r) EXCEPT !.toggle =
        IF r.op \in {"permanent_on_enable", "permanent_on_disable"} /\ r.success
        THEN r.op
        ELSE IF r.op = "get_status" THEN h.toggle ELSE "none"]

----------------------------------------------------------------------------
\* Actions.  `seq` is TRUE when requests are processed one at a time.

AllIdle == \A q \in Procs : req[q].pc = "idle"

Accept(p, seq) ==
    /\ req[p].pc = "idle"
    /\ seq => AllIdle
    /\ IF AllIdle THEN overlaps' = overlaps
                  ELSE overlaps < MaxOverlaps /\ overlaps' = overlaps + 1

Enter(p, op, api_key) ==
    [idle_req EXCEPT !.op = op, !.endpoint = op, !.api_key = api_key]

Set(p, c) ==
    /\ req' = [req EXCEPT ![p] = c.req]
    /\ status_file' = c.file
    /\ UNCHANGED <<base_file, run, clock, fault>>

Go(p, c) == Set(p, c) /\ UNCHANGED overlaps

\* A segment that touches no file
Local(p, r) == Go(p, [req |-> r, file |-> status_file])

\* POST /arrancar, to the first suspension inside read_status
arrancar_equipo(p, seq, api_key) ==
    /\ Accept(p, seq)
    /\ verify_api_key(api_key)
    /\ read_status_load(status_file, base_file).current_status.peticions_ollama < MaxCounter
    /\ Set(p, read_status_call(Enter(p, "arrancar_equipo", api_key), status_file, base_file))

\* POST /apagar, to the first suspension inside read_status
apagar_equipo(p, seq, api_key) ==
    /\ Accept(p, seq)
    /\ verify_api_key(api_key)
    /\ Set(p, read_status_call(Enter(p, "apagar_equipo", api_key), status_file, base_file))

\* GET /status
get_status(p, seq, api_key) ==
    /\ Accept(p, seq)
    /\ verify_api_key(api_key)
    /\ Set(p, read_status_call(Enter(p, "get_status", api_key), status_file, base_file))

\* POST /permanent_on_enable
permanent_on_enable(p, seq, api_key) ==
    /\ Accept(p, seq)
    /\ verify_api_key(api_key)
    /\ Set(p, update_status_call(Enter(p, "permanent_on_enable", api_key),
                  status_file, base_file,
                  "permanent_on" :> TRUE, "Permanent_on activat"))

\* POST /permanent_on_disable
permanent_on_disable(p, seq, api_key) ==
    /\ Accept(p, seq)
    /\ verify_api_key(api_key)
    /\ Set(p, update_status_call(Enter(p, "permanent_on_disable", api_key),
                  status_file, base_file,
                  "permanent_on" :> FALSE, "Permanent_on desactivat"))

\* GET /test, to its first suspension: it begins with its own probe
test_ia(p, seq, api_key) ==
    /\ Accept(p, seq)
    /\ verify_api_key(api_key)
    /\ req' = [req EXCEPT ![p] =
                  [Enter(p, "test_ia", api_key) EXCEPT !.pc = "check_host"]]
    /\ UNCHANGED <<status_file, base_file, run, clock, fault>>

\* POST /init, to its first suspension: it begins with its own probe
init_status(p, seq, api_key) ==
    /\ Accept(p, seq)
    /\ verify_api_key(api_key)
    /\ req' = [req EXCEPT ![p] =
                  [Enter(p, "init_status", api_key) EXCEPT !.pc = "check_host"]]
    /\ UNCHANGED <<status_file, base_file, run, clock, fault>>

\* POST /shutdown, to its first suspension: it begins with its own probe
shutdown_force(p, seq, api_key) ==
    /\ Accept(p, seq)
    /\ verify_api_key(api_key)
    /\ req' = [req EXCEPT ![p] =
                  [Enter(p, "shutdown_force", api_key) EXCEPT !.pc = "check_host"]]
    /\ UNCHANGED <<status_file, base_file, run, clock, fault>>

\* read_status: its check_host_connectivity ended
read_status_host(p, host) ==
    /\ req[p].pc = "read_status:host"
    /\ IF read_status_observe(host, "none").equipo_online
       THEN /\ req' = [req EXCEPT ![p].pc = "read_status:ollama"]
            /\ UNCHANGED <<status_file, base_file, run, overlaps, clock, fault>>
       ELSE Go(p, read_status_return(req[p], status_file, host, "none"))

\* read_status: its GET /api/tags ended
read_status_ollama(p, outcome) ==
    /\ req[p].pc = "read_status:ollama"
    /\ Go(p, read_status_return(req[p], status_file, "connected", outcome))

\* The handler's own probe raised: arrancar_equipo, apagar_equipo and
\* shutdown_force catch it in their outermost except clause
probe_failed(r) == respond([r EXCEPT !.probe_raised = TRUE], 500, FALSE)

\* Mutant: the magic packet is sent whatever the probe said
arrancar_sends_wol_always(equipo_online) == TRUE

\* arrancar_equipo sends the magic packet when its probe failed
arrancar_sends_wol(equipo_online) == ~equipo_online

\* Mutant: an exception of send_magic_packet is swallowed
arrancar_on_wol_failure_goes_on(r) ==
    update_status_call(r, status_file, base_file,
        "peticions_ollama" :> r.new_peticions, "Arrancar: Magic packet enviat")

\* arrancar_equipo, send_magic_packet raised: the except clause turns the
\* exception into a 500 at once; update_status is not reached
arrancar_on_wol_failure(r) ==
    [req |-> respond([r EXCEPT !.wol_raised = TRUE], 500, FALSE),
     file |-> status_file]

\* arrancar_equipo: its own check_host_connectivity ended
arrancar_equipo_probed(p, host) ==
    /\ req[p].op = "arrancar_equipo" /\ req[p].pc = "check_host"
    /\ LET equipo_online == check_host_connectivity(host).value
           new_peticions == arrancar_new_peticions(req[p].current_status)
           r == [req[p] EXCEPT !.equipo_online = equipo_online,
                               !.new_peticions = new_peticions,
                               !.wol = arrancar_sends_wol(equipo_online)]
       IN IF check_host_connectivity(host).raised
          THEN Local(p, probe_failed(req[p]))
          ELSE IF equipo_online
          THEN Go(p, update_status_call(r, status_file, base_file,
                     arrancar_online_updates(new_peticions),
                     "Arrancar: Equip ja ences"))
          ELSE IF send_magic_packet_raises
          THEN Go(p, arrancar_on_wol_failure(r))
          ELSE Go(p, update_status_call(r, status_file, base_file,
                     "peticions_ollama" :> new_peticions,
                     "Arrancar: Magic packet enviat"))

\* apagar_equipo: its own check_host_connectivity ended; the power-off
\* sequence, when it is due, runs to its end before the request suspends
apagar_equipo_probed(p, host, ssh) ==
    /\ req[p].op = "apagar_equipo" /\ req[p].pc = "check_host"
    /\ LET equipo_online == check_host_connectivity(host).value
           new_peticions == apagar_new_peticions(req[p].current_status)
           permanent_on == req[p].current_status.permanent_on
           r == [req[p] EXCEPT !.equipo_online = equipo_online,
                               !.new_peticions = new_peticions]
           off == [r EXCEPT !.powered = TRUE, !.ssh = ssh]
       IN IF check_host_connectivity(host).raised
          THEN Local(p, probe_failed(req[p]))
          ELSE IF ~equipo_online
          THEN Go(p, update_status_call(r, status_file, base_file,
                     apagar_offline_updates(new_peticions),
                     "Apagar: Equip ja apagat"))
          ELSE IF ~should_shutdown_physically(new_peticions, permanent_on)
          THEN Go(p, update_status_call(
                     [r EXCEPT !.reason = apagar_reason(new_peticions, permanent_on)],
                     status_file, base_file,
                     "peticions_ollama" :> new_peticions,
                     "Apagar: No s'apaga fisicament: "
                        \o apagar_reason(new_peticions, permanent_on)))
          ELSE IF ssh_shutdown(ssh).ok
          THEN Go(p, update_status_call(off, status_file, base_file,
                     ("peticions_ollama" :> new_peticions) @@
                     ("logical_on" :> FALSE) @@ ("phisical_on" :> FALSE),
                     "Apagar: Apagat fisic enviat"))
          ELSE Go(p, [req |-> respond(off, ssh_shutdown(ssh).status_code, FALSE),
                       file |-> apagar_on_failure(status_file)])

\* Mutant: only the service flag is persisted
test_ia_updates_service_only(equipo_online, ollama_online) ==
    "logical_on" :> ollama_online

\* Mutant: only the host flag is persisted
test_ia_updates_host_only(equipo_online, ollama_online) ==
    "phisical_on" :> equipo_online

\* test_ia: what it persists, its two observations
test_ia_updates(equipo_online, ollama_online) ==
    ("logical_on" :> ollama_online) @@ ("phisical_on" :> equipo_online)

\* test_ia: its check_host_connectivity ended (an exception is caught)
test_ia_probed(p, host) ==
    /\ req[p].op = "test_ia" /\ req[p].pc = "check_host"
    /\ LET equipo_online == check_host_connectivity(host).value
           r == [req[p] EXCEPT !.equipo_online = equipo_online]
       IN IF equipo_online
          THEN Local(p, [r EXCEPT !.pc = "get_tags"])
          ELSE Go(p, update_status_call(r, status_file, base_file,
                     test_ia_updates(FALSE, FALSE),
                     "Test: " \o test_ia_mensaje(host, "none")))

\* test_ia: its GET /api/tags ended
test_ia_ollama(p, outcome) ==
    /\ req[p].op = "test_ia" /\ req[p].pc = "get_tags"
    /\ Go(p, update_status_call(
                 [req[p] EXCEPT !.ollama_online = ollama_is_online(outcome),
                                !.health = outcome],
                 status_file, base_file,
                 test_ia_updates(TRUE, ollama_is_online(outcome)),
                 "Test: " \o test_ia_mensaje("connected", outcome)))

\* Mutant: the reset of the counter and of the override is forgotten
init_updates_flags_only(equipo_online, ollama_online) ==
    ("logical_on" :> ollama_online) @@ ("phisical_on" :> equipo_online)

init_updates(equipo_online, ollama_online) ==
    ("logical_on" :> ollama_online) @@ ("phisical_on" :> equipo_online) @@
    ("peticions_ollama" :> 0) @@ ("permanent_on" :> FALSE)

\* init_status: its check_host_connectivity ended (an exception is caught)
init_status_probed(p, host) ==
    /\ req[p].op = "init_status" /\ req[p].pc = "check_host"
    /\ LET equipo_online == check_host_connectivity(host).value
           r == [req[p] EXCEPT !.equipo_online = equipo_online]
       IN IF equipo_online
          THEN Local(p, [r EXCEPT !.pc = "get_tags"])
          ELSE Go(p, update_status_call(r, status_file, base_file,
                     init_updates(FALSE, FALSE),
                     init_status_mensaje(host, "none")))

\* init_status: its GET /api/tags ended
init_status_ollama(p, outcome) ==
    /\ req[p].op = "init_status" /\ req[p].pc = "get_tags"
    /\ Go(p, update_status_call(
                 [req[p] EXCEPT !.ollama_online = ollama_is_online(outcome),
                                !.health = outcome],
                 status_file, base_file,
                 init_updates(TRUE, ollama_is_online(outcome)),
                 init_status_mensaje("connected", outcome)))

\* shutdown_force: its check_host_connectivity ended; the power-off
\* sequence runs to its end before the request suspends
shutdown_force_probed(p, host, ssh) ==
    /\ req[p].op = "shutdown_force" /\ req[p].pc = "check_host"
    /\ LET equipo_online == check_host_connectivity(host).value
           r == [req[p] EXCEPT !.equipo_online = equipo_online]
           off == [r EXCEPT !.powered = TRUE, !.ssh = ssh]
       IN IF check_host_connectivity(host).raised
          THEN Local(p, probe_failed(req[p]))
          ELSE IF ~shutdown_force_powers_off(equipo_online, status_file.data)
          THEN Go(p, update_status_call(r, status_file, base_file, full_reset,
                     "Shutdown forcat: Equip ja estava apagat, estat resetejat"))
          ELSE IF ssh_shutdown(ssh).ok
          THEN Go(p, update_status_call(off, status_file, base_file, full_reset,
                     "Shutdown forcat: Apagat fisic enviat, estat completament resetejat"))
          ELSE Go(p, [req |-> respond(off, ssh_shutdown(ssh).status_code, FALSE),
                       file |-> shutdown_force_on_failure(status_file)])

\* The response leaves; the slot is free again
Respond(p, seq) ==
    /\ req[p].pc = "done"
    /\ req' = [req EXCEPT ![p] = idle_req]
    /\ run' = IF seq THEN run_next(run, req[p]) ELSE run_other
    /\ UNCHANGED <<status_file, base_file, overlaps, clock, fault>>

----------------------------------------------------------------------------
\* Endpoints that do not use the status record

\* A protected endpoint, verify_api_key raised: the handler does not start
unauthorized(p, op, api_key) ==
    /\ Accept(p, TRUE)
    /\ ~verify_api_key(api_key)
    /\ Local(p, respond([Enter(p, op, api_key) EXCEPT !.op = "verify_api_key"],
                        401, FALSE))

\* GET /
root(p, api_key) ==
    /\ Accept(p, TRUE)
    /\ Local(p, respond(Enter(p, "root", api_key), 200, TRUE))

\* GET /debug, to the ping it awaits
debug_info(p, api_key) ==
    /\ Accept(p, TRUE)
    /\ verify_api_key(api_key)
    /\ Local(p, [Enter(p, "debug_info", api_key) EXCEPT !.pc = "ping"])

\* GET /debug: the ping ended, one way or the other
debug_info_pinged(p) ==
    /\ req[p].op = "debug_info" /\ req[p].pc = "ping"
    /\ Local(p, respond(req[p], 200, TRUE))

\* GET /lista_modelos, to its probe
lista_modelos(p, api_key) ==
    /\ Accept(p, TRUE)
    /\ verify_api_key(api_key)
    /\ Local(p, [Enter(p, "lista_modelos", api_key) EXCEPT !.pc = "check_host"])

\* lista_modelos: its check_host_connectivity ended
lista_modelos_probed(p, host) ==
    /\ req[p].op = "lista_modelos" /\ req[p].pc = "check_host"
    /\ LET equipo_online == check_host_connectivity(host).value
           r == [req[p] EXCEPT !.equipo_online = equipo_online]
       IN IF check_host_connectivity(host).raised
          THEN Local(p, probe_failed(req[p]))
          ELSE IF ~equipo_online
          THEN Go(p, [req |-> respond(r, 200, FALSE),
                      file |-> proxy_file(status_file, equipo_online)])
          ELSE Local(p, [r EXCEPT !.pc = "upstream"])

\* lista_modelos: its GET /api/tags ended
lista_modelos_upstream(p, outcome) ==
    /\ req[p].op = "lista_modelos" /\ req[p].pc = "upstream"
    /\ Local(p, respond([req[p] EXCEPT !.upstream = outcome],
                        lista_modelos_status(outcome), outcome = "200"))

\* The chunks of a reply, in the order the upstream sends them
Chunks(n) == [i \in 1..n |-> i]

\* `async with httpx.AsyncClient(...) as client`: the buffered request is
\* awaited inside the block; in stream mode the handler returns its
\* StreamingResponse from inside the block, which closes the client, and
\* stream_generator first runs after that
async_client_at_request(stream) == IF stream THEN "closed" ELSE "open"

\* stream_generator, run to its end: client.stream on a closed client raises
\* before any request leaves; on an open one an upstream 200 has every chunk
\* yielded as it comes, anything else raises before the first chunk
stream_generator(client, outcome, offered) ==
    IF client = "closed"
    THEN [upstream |-> "client_closed", relayed |-> <<>>]
    ELSE IF outcome = "200"
    THEN [upstream |-> outcome, relayed |-> offered]
    ELSE [upstream |-> outcome, relayed |-> <<>>]

\* POST /ollama/generate, chat, pull, delete, show, to the probe
ollama_proxy(p, op, api_key, stream) ==
    /\ Accept(p, TRUE)
    /\ verify_api_key(api_key)
    /\ stream => op \in StreamOps
    /\ Local(p, [Enter(p, op, api_key) EXCEPT !.pc = "check_host", !.stream = stream])

\* /ollama/*: its check_host_connectivity ended.  In stream mode the handler
\* returns its StreamingResponse at once; the relay runs after it.
ollama_proxy_probed(p, host) ==
    /\ req[p].op \in ProxyOps /\ req[p].pc = "check_host"
    /\ LET equipo_online == check_host_connectivity(host).value
           r == [req[p] EXCEPT !.equipo_online = equipo_online]
           c == async_client_at_request(r.stream)
       IN IF check_host_connectivity(host).raised
          THEN Local(p, probe_failed(req[p]))
          ELSE IF ~equipo_online
          THEN Go(p, [req |-> respond(r, proxy_unreachable_status(r.op), FALSE),
                      file |-> proxy_file(status_file, equipo_online)])
          ELSE IF r.stream
          THEN Local(p, [r EXCEPT !.pc = "relay", !.status_code = 200,
                                  !.client = c])
          ELSE Local(p, [r EXCEPT !.pc = "upstream", !.client = c])

\* /ollama/*, buffered: the upstream request ended
ollama_proxy_upstream(p, outcome, code) ==
    /\ req[p].op \in ProxyOps /\ req[p].pc = "upstream"
    /\ Local(p, respond([req[p] EXCEPT
                            !.upstream = outcome,
                            !.upstream_code = CASE outcome = "200" -> 200
                                                [] outcome = "non200" -> code
                                                [] OTHER -> 0],
                        proxy_upstream_status(outcome, code), outcome = "200"))

\* /ollama/*, stream mode: stream_generator runs once the handler has left
\* its `async with`, the 200 of the StreamingResponse already sent.
\* `outcome` and `n` are the reply the upstream holds for the request: how
\* it answers and, for a 200, how many chunks follow.
ollama_proxy_relay(p, outcome, n) ==
    /\ req[p].op \in ProxyOps /\ req[p].pc = "relay"
    /\ LET offered == IF outcome = "200" THEN Chunks(n) ELSE <<>>
           g == stream_generator(req[p].client, outcome, offered)
       IN Local(p, respond([req[p] EXCEPT !.upstream = g.upstream,
                                          !.offered = offered,
                                          !.relayed = g.relayed],
                           200, g.upstream = "200"))

----------------------------------------------------------------------------

Init ==
    /\ status_file = NoFile
    /\ base_file \in {NoFile, [exists |-> TRUE, data |-> base_status]}
    /\ req = [p \in Procs |-> idle_req]
    /\ run = run_init
    /\ overlaps = 0
    /\ clock = BaseDatetime + 1
    /\ fault = "none"

\* The failing health outcomes differ only in the text of the message; with
\* requests interleaving, one of them stands for all.
ServiceOutcomes(seq) == IF seq THEN OllamaOutcomes ELSE {"200", "ConnectError"}

\* Likewise for the ways the host probe fails
HostChoices(seq) == IF seq THEN HostOutcomes ELSE {"connected", "refused"}

\* and for the power-off sequence: one outcome for each way the handler
\* answers
SshChoices(seq) ==
    IF seq THEN SshOutcomes ELSE {"ok", "fallback_ok", "auth", "fallback_fail"}

Step(p, seq) ==
    \/ \E api_key \in Tokens :
          \/ arrancar_equipo(p, seq, api_key)
          \/ apagar_equipo(p, seq, api_key)
          \/ get_status(p, seq, api_key)
          \/ permanent_on_enable(p, seq, api_key)
          \/ permanent_on_disable(p, seq, api_key)
          \/ test_ia(p, seq, api_key)
          \/ init_status(p, seq, api_key)
          \/ shutdown_force(p, seq, api_key)
    \/ \E host \in HostChoices(seq) :
          \/ read_status_host(p, host)
          \/ arrancar_equipo_probed(p, host)
          \/ test_ia_probed(p, host)
          \/ init_status_probed(p, host)
          \/ \E ssh \in SshChoices(seq) :
                \/ apagar_equipo_probed(p, host, ssh)
                \/ shutdown_force_probed(p, host, ssh)
    \/ \E outcome \in ServiceOutcomes(seq) :
          \/ read_status_ollama(p, outcome)
          \/ test_ia_ollama(p, outcome)
          \/ init_status_ollama(p, outcome)
    \/ Respond(p, seq)

\* The endpoints that share no state with the others
Stateless(p) ==
    \/ \E api_key \in Tokens :
          \/ root(p, api_key)
          \/ debug_info(p, api_key)
          \/ lista_modelos(p, api_key)
          \/ \E op \in ProtectedOps : unauthorized(p, op, api_key)
          \/ \E op \in ProxyOps, stream \in BOOLEAN :
                ollama_proxy(p, op, api_key, stream)
    \/ debug_info_pinged(p)
    \/ \E host \in HostOutcomes :
          \/ lista_modelos_probed(p, host)
          \/ ollama_proxy_probed(p, host)
    \/ \E outcome \in OllamaOutcomes :
          \/ lista_modelos_upstream(p, outcome)
          \/ \E code \in UpstreamErrorCodes : ollama_proxy_upstream(p, outcome, code)
          \/ \E n \in 0..MaxChunks : ollama_proxy_relay(p, outcome, n)

\* Requests interleave at their awaits.  The endpoints that do not use the
\* record, and the requests turned away for their key, take no part here.
Next == \E p \in Procs : Step(p, FALSE)

\* One request at a time, over every endpoint
SeqNext == Step(1, TRUE) \/ Stateless(1)

Spec == Init /\ [][Next]_vars

SeqSpec == Init /\ [][SeqNext]_vars

\* Time passes between two steps of the program
Tick ==
    /\ clock < MaxClock
    /\ clock' = clock + 1
    /\ UNCHANGED <<status_file, base_file, req, run, overlaps, fault>>

\* One request at a time, while the clock advances
TimeNext == Step(1, TRUE) \/ Tick

TimeSpec == Init /\ [][TimeNext]_vars

\* A local operation starts or ceases to fail
Fault ==
    /\ \E f \in Faults : fault' = f
    /\ UNCHANGED <<status_file, base_file, req, run, overlaps, clock>>

\* One request at a time, while local operations may fail.  Only the first
\* slot takes requests; the history of the run is not kept.
FaultNext == Step(1, FALSE) \/ Fault

FaultSpec == Init /\ [][FaultNext]_vars

----------------------------------------------------------------------------
\* Vocabulary of the properties

persisted == status_file.data

floor0(n) == IF n > 0 THEN n ELSE 0

InUpdate(r) ==
    r.pc \in {"read_status:host", "read_status:ollama"} /\ r.caller = "update_status"

\* The handler is past its own probe: equipo_online holds what it reported
Probed(r) == (r.pc = "done" /\ ~r.probe_raised) \/ InUpdate(r)

Succeeded(r) == r.pc = "done" /\ r.success

\* The read of the handler is behind it and its write is still to come
BeforeWrite(r) == r.pc = "check_host" \/ InUpdate(r)

Reset(d) ==
    /\ d.peticions_ollama = 0 /\ ~d.permanent_on
    /\ ~d.logical_on /\ ~d.phisical_on

----------------------------------------------------------------------------
\* C1: the persisted peticions_ollama is never negative, under any
\* interleaving of the requests; the counter a shutdown-request computes is
\* never negative and is 0 when it read 0.
C1_CounterNeverNegative ==
    /\ persisted.peticions_ollama >= 0
    /\ \A p \in Procs :
          req[p].op = "apagar_equipo" /\ Probed(req[p]) =>
             /\ req[p].new_peticions >= 0
             /\ req[p].current_status.peticions_ollama = 0 => req[p].new_peticions = 0
             /\ InUpdate(req[p]) => req[p].updates["peticions_ollama"] = req[p].new_peticions

\* C1 witness: a shutdown-request that read counter 0 succeeded and the
\* persisted counter is 0
C1_Witness ==
    \E p \in Procs :
        /\ req[p].op = "apagar_equipo" /\ Succeeded(req[p])
        /\ req[p].current_status.peticions_ollama = 0
        /\ status_file.exists /\ persisted.peticions_ollama = 0

\* C2: a shutdown-request whose probe found the host reachable invokes the
\* power-off sequence exactly when new_counter < 1 and permanent_on is false,
\* on the values its first read returned; having read counter 1 and no
\* override it powers off and, the sequence succeeding, ends with counter 0
\* and both flags false; having read counter 2 it does not power off and
\* ends with counter 1.
C2_PowerOffIffDue ==
    \A p \in Procs :
        LET r == req[p]
            c == r.current_status.peticions_ollama
            override == r.current_status.permanent_on
        IN r.op = "apagar_equipo" /\ Probed(r) /\ r.equipo_online =>
              /\ r.powered <=> (floor0(c - 1) < 1 /\ ~override)
              /\ c = 1 /\ ~override /\ Succeeded(r) =>
                    /\ r.powered
                    /\ persisted.peticions_ollama = 0
                    /\ ~persisted.logical_on /\ ~persisted.phisical_on
              /\ c = 2 /\ r.pc = "done" =>
                    ~r.powered /\ r.success /\ persisted.peticions_ollama = 1

\* C2 witness: a shutdown-request read counter 1 without override, found the
\* host reachable, powered it off and succeeded
C2_Witness ==
    \E p \in Procs :
        /\ req[p].op = "apagar_equipo" /\ Succeeded(req[p])
        /\ req[p].equipo_online /\ req[p].powered
        /\ req[p].current_status.peticions_ollama = 1

\* C3: with requests processed one at a time, a shutdown-request never
\* invokes the power-off sequence while the persisted permanent_on is true,
\* whatever the counter; once its probe has answered it decrements the
\* persisted counter, floored at 0, and leaves permanent_on true.
C3_OverrideBlocksPowerOff ==
    \A p \in Procs :
        LET r == req[p]
            read == r.current_status
        IN r.op = "apagar_equipo" =>
              /\ BeforeWrite(r) =>
                    /\ read.peticions_ollama = persisted.peticions_ollama
                    /\ read.permanent_on = persisted.permanent_on
              /\ status_file.exists /\ persisted.permanent_on => ~r.powered
              /\ r.pc = "done" /\ Probed(r) /\ read.permanent_on =>
                    /\ ~r.powered /\ r.success
                    /\ persisted.peticions_ollama = floor0(read.peticions_ollama - 1)
                    /\ persisted.permanent_on

\* C3 witness: a shutdown-request completed on a reachable host with the
\* override set and the counter brought to 0
C3_Witness ==
    \E p \in Procs :
        /\ req[p].op = "apagar_equipo" /\ req[p].pc = "done"
        /\ req[p].equipo_online
        /\ persisted.permanent_on /\ persisted.peticions_ollama = 0
        /\ req[p].current_status.peticions_ollama = 1

\* C4 as claimed: whatever the operation, the power-off sequence is invoked
\* only while the persisted counter would drop to 0 or is 0 and the
\* persisted permanent_on is false.
C4_PowerOffOnlyWhenDue ==
    \A p \in Procs :
        req[p].powered =>
            floor0(persisted.peticions_ollama - 1) = 0 /\ ~persisted.permanent_on

\* C4 amended: with requests processed one at a time, only shutdown-request
\* and forced-shutdown invoke the power-off sequence, and shutdown-request
\* only while the persisted counter would drop to 0 or is 0 and the
\* persisted permanent_on is false.
C4_PowerOffOnlyWhenDueOrForced ==
    \A p \in Procs :
        req[p].powered =>
            \/ req[p].op = "shutdown_force"
            \/ /\ req[p].op = "apagar_equipo"
               /\ floor0(persisted.peticions_ollama - 1) = 0
               /\ ~persisted.permanent_on

\* C4 witness: a shutdown-request invoked the power-off sequence with the
\* persisted counter already 0
C4_Witness ==
    \E p \in Procs :
        /\ req[p].op = "apagar_equipo" /\ req[p].powered /\ InUpdate(req[p])
        /\ req[p].current_status.peticions_ollama = 0
        /\ persisted.peticions_ollama = 0 /\ ~persisted.permanent_on

\* C5: in a sequential run from an initialised record, k wake calls and then
\* k shutdown-requests on a reachable host: the counter is the number of
\* wake calls, then that number less the shutdown-requests, and the
\* power-off sequence has been invoked once when the k-th shutdown-request
\* completed and not before.
C5_Lifecycle ==
    AllIdle /\ status_file.exists /\ ~run.toggled =>
        /\ run.phase = "wakes" =>
              persisted.peticions_ollama = run.wakes /\ run.offs = 0
        /\ run.phase = "downs" =>
              /\ persisted.peticions_ollama = run.wakes - run.downs
              /\ run.offs = IF run.downs = run.wakes THEN 1 ELSE 0

\* C5 witness: two wake calls and two shutdown-requests completed
C5_Witness ==
    /\ AllIdle /\ ~run.toggled /\ run.phase = "downs"
    /\ run.wakes = 2 /\ run.downs = 2 /\ run.offs = 1

\* C6: after N wake calls processed one after another from counter 0, each
\* finding the host unreachable, the persisted counter is N and N wake
\* signals have been sent.
C6_WakesCounted ==
    AllIdle /\ status_file.exists /\ run.phase = "wakes" /\ run.unreachable =>
        persisted.peticions_ollama = run.wakes /\ run.wol = run.wakes

\* C6 witness: two wake calls completed on an unreachable host
C6_Witness ==
    /\ AllIdle /\ run.phase = "wakes" /\ run.unreachable /\ run.wakes = 2
    /\ persisted.peticions_ollama = 2

\* C7: a wake call whose probe found the host reachable adds exactly 1 to
\* the persisted counter, persists phisical_on = true and sends no wake
\* signal; a run of such calls has sent none.
C7_WakeOnReachableHost ==
    /\ \A p \in Procs :
          LET r == req[p]
          IN r.op = "arrancar_equipo" =>
                /\ BeforeWrite(r) =>
                      r.current_status.peticions_ollama = persisted.peticions_ollama
                /\ Probed(r) /\ r.equipo_online => ~r.wol
                /\ r.pc = "done" /\ r.equipo_online =>
                      /\ r.success
                      /\ persisted.peticions_ollama
                            = r.current_status.peticions_ollama + 1
                      /\ persisted.phisical_on
    /\ AllIdle /\ run.phase = "wakes" /\ run.reachable => run.wol = 0

\* C7 witness: a second wake call on a reachable host completed
C7_Witness ==
    /\ \E p \in Procs :
          /\ req[p].op = "arrancar_equipo" /\ Succeeded(req[p])
          /\ req[p].equipo_online
    /\ persisted.peticions_ollama = 2
    /\ run.phase = "wakes" /\ run.reachable /\ run.wakes = 1

C9_ForcedShutdownIffReachable ==
    \A p \in Procs :
        req[p].op = "shutdown_force" /\ Probed(req[p]) =>
            (req[p].powered <=> req[p].equipo_online)

\* C9 witness: forced-shutdown invoked the power-off sequence with the
\* override set and the counter at 2
C9_Witness ==
    \E p \in Procs :
        /\ req[p].op = "shutdown_force" /\ req[p].powered
        /\ persisted.permanent_on /\ persisted.peticions_ollama = 2

\* C10: a forced-shutdown that reports success leaves the record fully
\* reset, the host having been reachable or not.
C10_ForcedShutdownResets ==
    \A p \in Procs :
        req[p].op = "shutdown_force" /\ Succeeded(req[p]) =>
            status_file.exists /\ Reset(persisted)

\* C10 witness: a forced-shutdown powered the host off and succeeded
C10_Witness ==
    \E p \in Procs :
        /\ req[p].op = "shutdown_force" /\ Succeeded(req[p]) /\ req[p].powered
        /\ Reset(persisted)

----------------------------------------------------------------------------
\* Vocabulary of the properties about single steps

InReadStatus(r) == r.pc \in {"read_status:host", "read_status:ollama"}

\* The step in which the read_status of request p returns
ReadStatusReturns(p) == InReadStatus(req[p]) /\ ~InReadStatus(req'[p])

\* The step in which request p ends
Finishes(p) == req[p].pc \notin {"idle", "done"} /\ req'[p].pc = "done"

\* The step in which request p arrives
Arrives(p) == req[p].pc = "idle" /\ req'[p].pc # "idle"

SshFailed(r) == r.ssh \in SshOutcomes \ {"ok", "fallback_ok"}

Toggles == {"permanent_on_enable", "permanent_on_disable"}

\* C11: an initialize that has ended succeeded and the persisted record has
\* counter 0, permanent_on false, phisical_on and logical_on equal to the
\* results of the probes the handler made itself (logical_on true exactly
\* when the host answered and the health request gave 200), whatever the
\* record held before and whatever the reconcile inside the update observed.
C11_InitializeResets ==
    \A p \in Procs :
        LET r == req[p]
        IN r.op = "init_status" /\ r.pc = "done" =>
              /\ r.success /\ status_file.exists
              /\ persisted.peticions_ollama = 0 /\ ~persisted.permanent_on
              /\ persisted.phisical_on = r.equipo_online
              /\ persisted.logical_on = r.ollama_online
              /\ r.ollama_online = (r.equipo_online /\ r.health = "200")
              /\ ~r.equipo_online => ~persisted.logical_on
              /\ r.new_status = persisted

\* C11 witness: an initialize ended after two wake calls had brought the
\* counter to 2; its own probes found the host up and the service down
C11_Witness ==
    \E p \in Procs :
        /\ req[p].op = "init_status" /\ req[p].pc = "done"
        /\ run.phase = "wakes" /\ run.wakes = 2
        /\ req[p].equipo_online /\ req[p].health = "ConnectError"
        /\ persisted.peticions_ollama = 0 /\ persisted.phisical_on

\* C12, what holds in every state
C12_State ==
    \A p \in Procs :
        LET r == req[p]
        IN r.op = "apagar_equipo" =>
              /\ r.powered /\ SshFailed(r) =>
                    /\ r.pc = "done" /\ ~r.success /\ r.status_code \in {401, 500}
                    /\ persisted.peticions_ollama = r.current_status.peticions_ollama
              /\ InUpdate(r) /\ r.equipo_online =>
                    IF r.powered
                    THEN /\ r.ssh \in {"ok", "fallback_ok"}
                         /\ r.updates = ("peticions_ollama" :> r.new_peticions) @@
                               ("logical_on" :> FALSE) @@ ("phisical_on" :> FALSE)
                    ELSE r.updates = ("peticions_ollama" :> r.new_peticions)

\* C12, what holds of every step
C12_Step ==
    \A p \in Procs :
        req[p].op = "apagar_equipo" /\ Finishes(p) /\ ~req'[p].success =>
            status_file' = status_file

\* C12: when the power-off sequence of a shutdown-request fails, the request
\* ends with an error, the failing step writes nothing and the persisted
\* counter is the one the request read; the decremented counter and the two
\* off-flags go into one update, made only after the sequence succeeded.
C12_FailedPowerOffLeavesRecord == []C12_State /\ [][C12_Step]_vars

\* C12 witness: a shutdown-request that read counter 1 failed, both commands
\* having exited non-zero, and the counter is still 1
C12_Witness ==
    \E p \in Procs :
        /\ req[p].op = "apagar_equipo" /\ req[p].pc = "done"
        /\ req[p].ssh = "fallback_fail" /\ req[p].status_code = 500
        /\ req[p].current_status.peticions_ollama = 1
        /\ persisted.peticions_ollama = 1

\* C13, what holds in every state
C13_State ==
    \A p \in Procs :
        LET r == req[p]
        IN r.op = "shutdown_force" /\ r.powered /\ SshFailed(r) =>
              r.pc = "done" /\ ~r.success /\ r.status_code \in {401, 500}

\* C13, what holds of every step
C13_Step ==
    \A p \in Procs :
        /\ req'[p].op = "shutdown_force"
        /\ Arrives(p) \/ (Finishes(p) /\ ~req'[p].success)
        => status_file' = status_file

\* C13: when the power-off sequence of a forced-shutdown fails (connection
\* error, authentication error, both commands non-zero) the request ends
\* with an error and no step of it, from its arrival on, has changed the
\* persisted record.
C13_FailedForcedShutdownLeavesRecord == []C13_State /\ [][C13_Step]_vars

\* C13 witness: a forced-shutdown failed on authentication with the
\* override set and the counter at 2
C13_Witness ==
    \E p \in Procs :
        /\ req[p].op = "shutdown_force" /\ req[p].pc = "done"
        /\ req[p].ssh = "auth" /\ req[p].status_code = 401
        /\ persisted.permanent_on /\ persisted.peticions_ollama = 2

\* C14, what holds in every state
C14_State ==
    \A p \in Procs :
        LET r == req[p]
        IN /\ /\ r.endpoint \in ProtectedOps
              /\ r.api_key = Missing \/ r.api_key = "" \/ r.api_key \notin API_KEYS
              => /\ r.op = "verify_api_key" /\ r.pc = "done"
                 /\ r.status_code = 401 /\ ~r.success
                 /\ ~r.wol /\ ~r.powered /\ r.ssh = "none"
                 /\ r.health = "none" /\ r.upstream = "none"
           /\ r.endpoint = "root" =>
                 r.pc = "done" /\ r.status_code = 200 /\ r.success

\* C14, what holds of every step
C14_Step ==
    \A p \in Procs :
        Arrives(p) /\ req'[p].op \in {"verify_api_key", "root"} =>
            status_file' = status_file

\* C14: a request to a protected endpoint whose key is missing, empty or not
\* configured ends at once with 401: its handler does not start, it makes
\* no probe, no read or write of the record, no wake signal and no
\* power-off, and the record is unchanged; GET / succeeds with any key.
C14_UnauthorizedBeforeLogic == []C14_State /\ [][C14_Step]_vars

\* C14 witness: a forced-shutdown with an empty key was turned away while
\* the record holds counter 2
C14_Witness ==
    \E p \in Procs :
        /\ req[p].endpoint = "shutdown_force" /\ req[p].api_key = ""
        /\ req[p].status_code = 401
        /\ status_file.exists /\ persisted.peticions_ollama = 2

\* C15, what holds in every state
C15_State ==
    \A p \in Procs :
        LET r == req[p]
        IN /\ r.op \in Toggles /\ r.pc = "done" =>
                 /\ r.success
                 /\ persisted.permanent_on = (r.op = "permanent_on_enable")
           /\ r.op = "get_status" /\ r.pc = "done" /\ run.toggle \in Toggles =>
                 /\ r.current_status.permanent_on = (run.toggle = "permanent_on_enable")
                 /\ persisted.permanent_on = (run.toggle = "permanent_on_enable")

\* C15, what holds of every step
C15_Step ==
    \A p \in Procs :
        req[p].op \in Toggles /\ Finishes(p) =>
            status_file'.data.peticions_ollama = status_file.data.peticions_ollama

\* C15: with requests processed one at a time, permanent_on_enable ends with
\* the persisted permanent_on true and permanent_on_disable with it false,
\* whatever it was; the step that writes it leaves the persisted counter as
\* it was; a status read that follows returns the new value.
C15_TogglesSetOverride == []C15_State /\ [][C15_Step]_vars

\* C15 witness: a status read after permanent_on_enable returned
\* permanent_on true, the counter being 1
C15_Witness ==
    \E p \in Procs :
        /\ req[p].op = "get_status" /\ req[p].pc = "done"
        /\ run.toggle = "permanent_on_enable"
        /\ req[p].current_status.permanent_on
        /\ req[p].current_status.peticions_ollama = 1

\* C16 as claimed, what holds in every state
C16_ClaimedState ==
    \A p \in Procs :
        req[p].op \in Toggles =>
            /\ ~InReadStatus(req[p])
            /\ ~req[p].wol /\ ~req[p].powered

\* C16 as claimed, what holds of every step
C16_ClaimedStep ==
    \A p \in Procs :
        req[p].op \in Toggles /\ Finishes(p) =>
            status_file'.data =
                [status_file.data EXCEPT
                    !.permanent_on = (req[p].op = "permanent_on_enable"),
                    !.message = status_file'.data.message]

\* C16 as claimed: a toggle makes no host or service probe, takes no remote
\* action, and the step that writes changes only permanent_on and message.
C16_TogglesArePure == []C16_ClaimedState /\ [][C16_ClaimedStep]_vars

\* C16 amended, what holds in every state
C16_State ==
    \A p \in Procs :
        LET r == req[p]
        IN r.op \in Toggles =>
              /\ r.pc \in {"read_status:host", "read_status:ollama", "done"}
              /\ ~r.wol /\ ~r.powered /\ r.ssh = "none" /\ ~r.probe_raised

\* C16 amended, what holds of every step
C16_Step ==
    \A p \in Procs :
        req[p].op \in Toggles /\ Finishes(p) =>
            status_file'.data =
                [status_file.data EXCEPT
                    !.permanent_on = (req[p].op = "permanent_on_enable"),
                    !.message = req[p].message,
                    !.phisical_on = req'[p].observed.equipo_online,
                    !.logical_on = req'[p].observed.ollama_online]

\* C16 amended: with requests processed one at a time, a toggle makes no
\* probe of its own and takes no remote action; the read_status inside its
\* update probes the host and, when it answers, the service; the step that
\* writes sets permanent_on and message, sets phisical_on and logical_on to
\* what that read_status observed, and leaves the counter as persisted.
C16_TogglesOnlyReconcile == []C16_State /\ [][C16_Step]_vars

\* C16 witness: the first request ever is a toggle; the record was created
\* with both flags false, the reconcile found host and service up and the
\* toggle ended with both flags true
C16_Witness ==
    \E p \in Procs :
        /\ req[p].op = "permanent_on_enable" /\ req[p].pc = "done"
        /\ run = run_init
        /\ req[p].observed.equipo_online /\ req[p].observed.ollama_online
        /\ persisted.phisical_on /\ persisted.logical_on /\ persisted.permanent_on

\* C17, what holds of every step
C17_Step ==
    \A p \in Procs :
        req[p].op = "get_status" /\ ReadStatusReturns(p) =>
            LET loaded == req[p].loaded
                ret == req'[p].current_status
                e == req'[p].observed.equipo_online
                o == req'[p].observed.ollama_online
                h == req'[p].health
            IN /\ loaded = status_file.data
               /\ ret.phisical_on = e /\ ret.logical_on = o
               /\ o = (e /\ h = "200")
               /\ e = (h # "none")
               /\ IF loaded.phisical_on # e \/ loaded.logical_on # o
                  THEN /\ status_file' = write_status(ret)
                       /\ \E m \in {"Equip no accessible",
                                    "Error en verificar connectivitat",
                                    "Equip i Ollama funcionant correctament",
                                    "Equip online pero Ollama ha respost amb codi",
                                    "Equip online pero no es pot connectar a Ollama",
                                    "Equip online pero Ollama no respon (timeout)",
                                    "Equip online pero error en verificar Ollama"} :
                             ret = [loaded EXCEPT !.phisical_on = e, !.logical_on = o,
                                                  !.message = "Estat verificat: " \o m]
                  ELSE status_file' = status_file /\ ret = loaded

\* C17: the record a status read returns has phisical_on equal to the
\* result of the host probe and logical_on true exactly when the host
\* answered and the health request gave 200, the service being asked only
\* when the host answered; the record is written when an observed flag
\* differs from the persisted one, with both flags and the message
\* overwritten, and otherwise nothing is written and the returned record is
\* the persisted one.
C17_ReconcileWritesOnChange == [][C17_Step]_vars

\* C17 witness: a status read found both flags as persisted and left the
\* record, message included, as the wake call before it had written it
C17_Witness ==
    \E p \in Procs :
        /\ req[p].op = "get_status" /\ req[p].pc = "done"
        /\ req[p].observed.equipo_online /\ req[p].observed.ollama_online
        /\ persisted.message = "Arrancar: Equip ja ences"
        /\ req[p].current_status = persisted

\* C18, what holds in every state
C18_State ==
    \A p \in Procs :
        req[p].op = "get_status" /\ req[p].pc = "done" =>
            req[p].success /\ req[p].status_code = 200

\* C18, what holds of every step
C18_Step ==
    \A p \in Procs :
        ReadStatusReturns(p) /\ req[p].caller = "handler" =>
            LET loaded == req[p].loaded
                ret == req'[p].current_status
                e == req'[p].observed.equipo_online
                h == req'[p].health
            IN /\ ret.peticions_ollama = loaded.peticions_ollama
               /\ ret.permanent_on = loaded.permanent_on
               /\ req[p].op = "get_status" =>
                     /\ ~e => ~ret.phisical_on /\ ~ret.logical_on
                     /\ h \in OllamaOutcomes \ {"200"} =>
                           /\ ret.phisical_on /\ ~ret.logical_on
                           /\ status_file' # status_file =>
                                 ret.message = "Estat verificat: "
                                     \o read_status_mensaje("connected", h)
                     /\ ~e /\ status_file' # status_file =>
                           ret.message \in
                              {"Estat verificat: Equip no accessible",
                               "Estat verificat: Error en verificar connectivitat"}

\* C18: read_status gives its caller a record for every outcome of the host
\* probe and of the health request: a status read always ends with 200; the
\* record returned carries the counter and permanent_on that were loaded;
\* a failed host probe gives both flags false, a failed health request
\* gives logical_on false, and the record written for it names the failure.
C18_ReconcileNeverRaises == []C18_State /\ [][C18_Step]_vars

\* C18 witness: a status read whose health request ended in an unexpected
\* exception returned counter 2 and the override with logical_on false
C18_Witness ==
    \E p \in Procs :
        /\ req[p].op = "get_status" /\ req[p].pc = "done"
        /\ req[p].health = "Exception"
        /\ req[p].current_status.peticions_ollama = 2
        /\ req[p].current_status.permanent_on
        /\ ~req[p].current_status.logical_on
        /\ req[p].current_status.message =
              "Estat verificat: Equip online pero error en verificar Ollama"

\* C19: a generate, chat, pull, delete or show request whose probe reported
\* the host unreachable ends at once with 503, and no upstream request was
\* attempted; an upstream request is attempted only for a reachable host.
C19_ProxyUnreachable ==
    \A p \in Procs :
        LET r == req[p]
        IN r.op \in ProxyOps =>
              /\ r.pc \in {"upstream", "relay", "done"} /\ ~r.probe_raised
                 /\ ~r.equipo_online =>
                    /\ r.pc = "done" /\ r.status_code = 503 /\ ~r.success
                    /\ r.upstream = "none"
              /\ r.pc \in {"upstream", "relay"} \/ r.upstream # "none" =>
                    r.equipo_online

\* C19 witness: a delete request ended with 503 on an unreachable host
C19_Witness ==
    \E p \in Procs :
        /\ req[p].op = "ollama_delete" /\ req[p].pc = "done"
        /\ ~req[p].equipo_online /\ ~req[p].probe_raised
        /\ req[p].status_code = 503 /\ req[p].upstream = "none"

\* C20, what holds in every state
C20_State ==
    \A p \in Procs :
        LET r == req[p]
        IN r.op \in ProxyOps \cup {"lista_modelos"} =>
              /\ ~InReadStatus(r) /\ r.caller = "handler"
              /\ ~r.wol /\ ~r.powered /\ r.ssh = "none"

\* C20, what holds of every step
C20_Step ==
    \A p \in Procs :
        \/ req[p].op \in ProxyOps \cup {"lista_modelos"}
        \/ req'[p].op \in ProxyOps \cup {"lista_modelos"}
        => status_file' = status_file

\* C20: no step of a lista_modelos, generate, chat, pull, delete or show
\* request, whatever its outcome, changes the record; such a request never
\* reads it, sends no wake signal and invokes no power-off.
C20_ProxiesLeaveRecord == []C20_State /\ [][C20_Step]_vars

\* C20 witness: a chat request ended with 503 on an unreachable host while
\* the record says counter 2, override set, host and service on
C20_Witness ==
    \E p \in Procs :
        /\ req[p].op = "ollama_chat" /\ req[p].pc = "done"
        /\ req[p].status_code = 503
        /\ persisted.peticions_ollama = 2 /\ persisted.permanent_on
        /\ persisted.phisical_on /\ persisted.logical_on

\* C21: a buffered generate, chat, pull, delete or show request to a
\* reachable host ends with 503 when the upstream connection failed, with
\* 504 when the upstream timed out, with the upstream's own status code when
\* the upstream answered anything but 200, and with 500 after any other
\* failure; it succeeds only on an upstream 200.
C21_UpstreamErrorsMapped ==
    \A p \in Procs :
        LET r == req[p]
        IN /\ r.op \in ProxyOps /\ r.pc = "done" /\ ~r.stream
           /\ r.equipo_online /\ ~r.probe_raised
           => /\ r.upstream \in OllamaOutcomes
              /\ r.upstream = "ConnectError" => r.status_code = 503
              /\ r.upstream = "TimeoutException" => r.status_code = 504
              /\ r.upstream = "non200" =>
                    r.status_code = r.upstream_code /\ r.upstream_code # 200
              /\ r.upstream = "Exception" => r.status_code = 500
              /\ r.upstream = "200" => r.status_code = 200
              /\ r.success <=> r.upstream = "200"

\* C21 witness: a buffered show request ended with 504 after its upstream
\* timed out
C21_Witness ==
    \E p \in Procs :
        /\ req[p].op = "ollama_show" /\ req[p].pc = "done" /\ ~req[p].stream
        /\ req[p].equipo_online /\ req[p].upstream = "TimeoutException"
        /\ req[p].status_code = 504

\* C21, second witness: a buffered generate request passed on the 404 of
\* its upstream
C21_WitnessPassThrough ==
    \E p \in Procs :
        /\ req[p].op = "ollama_generate" /\ req[p].pc = "done" /\ ~req[p].stream
        /\ req[p].upstream = "non200" /\ req[p].upstream_code = 404
        /\ req[p].status_code = 404

\* C22, what holds in every state: what a wake call decides and persists is
\* determined by its probe and by the counter it read, and the call that
\* read the same record with the other value of permanent_on computes the
\* same counter
C22_State ==
    \A p \in Procs :
        LET r == req[p]
            twin == [r.current_status EXCEPT !.permanent_on = ~@]
        IN r.op = "arrancar_equipo" /\ Probed(r) =>
              /\ r.wol = ~r.equipo_online
              /\ r.new_peticions = r.current_status.peticions_ollama + 1
              /\ arrancar_new_peticions(twin) = r.new_peticions
              /\ InUpdate(r) =>
                    /\ "permanent_on" \notin DOMAIN r.updates
                    /\ r.updates["peticions_ollama"] = r.new_peticions
              /\ r.pc = "done" =>
                    /\ r.success
                    /\ persisted.peticions_ollama = r.new_peticions
                    /\ persisted.permanent_on = r.current_status.permanent_on

\* C22, what holds of every step: no step of a wake call changes the
\* persisted permanent_on
C22_Step ==
    \A p \in Procs :
        /\ req[p].op = "arrancar_equipo" \/ req'[p].op = "arrancar_equipo"
        /\ status_file.exists
        => status_file'.data.permanent_on = persisted.permanent_on

\* C22: a wake call is never gated by permanent_on.  Whether it sends the
\* wake signal depends on its probe alone and the counter it persists is the
\* counter it read plus one, for either value of the persisted permanent_on,
\* which it leaves as it was.
C22_WakeIgnoresOverride == []C22_State /\ [][C22_Step]_vars

\* C22 witness: with permanent_on set, a wake call on an unreachable host
\* sent the wake signal and raised the counter from 1 to 2
C22_Witness ==
    \E p \in Procs :
        /\ req[p].op = "arrancar_equipo" /\ req[p].pc = "done" /\ req[p].success
        /\ req[p].current_status.permanent_on /\ persisted.permanent_on
        /\ req[p].current_status.peticions_ollama = 1
        /\ ~req[p].equipo_online /\ req[p].wol
        /\ persisted.peticions_ollama = 2

\* C22, second witness: the same call with permanent_on clear
C22_WitnessClear ==
    \E p \in Procs :
        /\ req[p].op = "arrancar_equipo" /\ req[p].pc = "done" /\ req[p].success
        /\ ~req[p].current_status.permanent_on /\ ~persisted.permanent_on
        /\ req[p].current_status.peticions_ollama = 1
        /\ ~req[p].equipo_online /\ req[p].wol
        /\ persisted.peticions_ollama = 2

\* C23, what holds in every state: the persisted datetime is the time of a
\* write, never the template's and never a time still to come
C23_State ==
    status_file.exists =>
        persisted.datetime > BaseDatetime /\ persisted.datetime <= clock

\* C23, what holds of every step: a step that changes the file, and the
\* step in which update_status writes, leave the current time as the
\* persisted datetime
C23_Step ==
    /\ status_file' # status_file =>
          status_file'.exists /\ status_file'.data.datetime = clock
    /\ \A p \in Procs :
          InUpdate(req[p]) /\ Finishes(p) =>
              /\ status_file'.data.datetime = clock
              /\ req'[p].replaced = persisted.datetime

\* C23: every write of the record sets its datetime to the time of that
\* write, whatever datetime the written dict carried, so the persisted
\* datetime is always the time of the most recent write.
C23_DatetimeIsLastWrite == []C23_State /\ [][C23_Step]_vars

\* C23 witness: a permanent_on_enable replaced, at time 3, a record that
\* carried the datetime 1; the persisted datetime is 3
C23_Witness ==
    \E p \in Procs :
        /\ req[p].op = "permanent_on_enable" /\ req[p].pc = "done"
        /\ req[p].replaced = 1 /\ clock = 3
        /\ persisted.datetime = 3 /\ persisted.permanent_on

\* The four fields every reader of the record relies on
StateFields == {"logical_on", "phisical_on", "peticions_ollama", "permanent_on"}

\* The step in which request p enters read_status
EntersReadStatus(p) == ~InReadStatus(req[p]) /\ InReadStatus(req'[p])

\* C24, what holds in every state: a request inside read_status holds a
\* loaded record with the four fields and the file exists; the record that
\* get_status and init_status return has the four fields
C24_State ==
    \A p \in Procs :
        LET r == req[p]
        IN /\ InReadStatus(r) =>
                 status_file.exists /\ StateFields \subseteq DOMAIN r.loaded
           /\ r.op = "get_status" /\ r.pc = "done" =>
                 StateFields \subseteq DOMAIN r.current_status
           /\ r.op = "init_status" /\ r.pc = "done" =>
                 StateFields \subseteq DOMAIN r.new_status

\* C24, what holds of every step: the file comes to exist in the step in
\* which a request first enters read_status, with the template's content or,
\* without a template, with the zero-defaults; it never ceases to exist
C24_Step ==
    /\ status_file.exists => status_file'.exists
    /\ (\E p \in Procs : EntersReadStatus(p)) => status_file'.exists
    /\ ~status_file.exists /\ status_file'.exists =>
          /\ \E p \in Procs : EntersReadStatus(p)
          /\ status_file'.data =
                IF base_file.exists
                THEN [base_file.data EXCEPT !.datetime = clock]
                ELSE [logical_on |-> FALSE, phisical_on |-> FALSE,
                      peticions_ollama |-> 0, permanent_on |-> FALSE,
                      message |-> "Equip desconnectat", datetime |-> clock]

\* C24: the record is created by the first read, from base.json or, when
\* that is missing too, from the zero-defaults; once created it is never
\* deleted, and every read returns logical_on, phisical_on, peticions_ollama
\* and permanent_on.
C24_CreatedLazilyNeverDeleted == []C24_State /\ [][C24_Step]_vars

\* C24 witness: without a template, a status read that is still probing has
\* created the record from the zero-defaults
C24_Witness ==
    \E p \in Procs :
        /\ req[p].op = "get_status" /\ req[p].pc = "read_status:host"
        /\ ~base_file.exists /\ status_file.exists
        /\ persisted.message = "Equip desconnectat"
        /\ persisted.peticions_ollama = 0 /\ ~persisted.permanent_on
        /\ ~persisted.logical_on /\ ~persisted.phisical_on

\* C24, second witness: with a template, the record a wake call created
\* carries the template's content
C24_WitnessFromBase ==
    \E p \in Procs :
        /\ req[p].op = "arrancar_equipo" /\ req[p].pc = "read_status:host"
        /\ base_file.exists /\ status_file.exists
        /\ persisted.message = "Equip offline"

\* C25, what holds in every state: a test request sends no wake signal and
\* invokes no power-off; the service counts as online only when the host
\* answered and the health request gave 200; what it hands to update_status
\* is its two observations and nothing else; once done it has succeeded and
\* the persisted flags are the observations it returns
C25_State ==
    \A p \in Procs :
        LET r == req[p]
        IN r.op = "test_ia" =>
              /\ ~r.wol /\ ~r.powered /\ r.ssh = "none"
              /\ InUpdate(r) \/ r.pc = "done" =>
                    r.ollama_online = (r.equipo_online /\ r.health = "200")
              /\ InUpdate(r) =>
                    r.updates = ("logical_on" :> r.ollama_online) @@
                                ("phisical_on" :> r.equipo_online)
              /\ r.pc = "done" =>
                    /\ r.success /\ r.status_code = 200
                    /\ persisted.phisical_on = r.equipo_online
                    /\ persisted.logical_on = r.ollama_online

\* C25, what holds of every step: no step of a test request changes the
\* persisted counter or permanent_on
C25_Step ==
    \A p \in Procs :
        /\ req[p].op = "test_ia" \/ req'[p].op = "test_ia"
        /\ status_file.exists
        => /\ status_file'.data.peticions_ollama = persisted.peticions_ollama
           /\ status_file'.data.permanent_on = persisted.permanent_on

\* C25: GET /test returns equipo_online and ollama_online as its own probes
\* reported them and persists them as phisical_on and logical_on; it leaves
\* the counter and permanent_on unchanged and never sends a wake signal or
\* invokes a power-off.
C25_TestObservesOnly == []C25_State /\ [][C25_Step]_vars

\* C25 witness: a test found the host on and the service off and persisted
\* just that, on a record with counter 2 and permanent_on set
C25_Witness ==
    \E p \in Procs :
        /\ req[p].op = "test_ia" /\ req[p].pc = "done"
        /\ req[p].equipo_online /\ ~req[p].ollama_online
        /\ persisted.phisical_on /\ ~persisted.logical_on
        /\ persisted.peticions_ollama = 2 /\ persisted.permanent_on

\* A shutdown-request past its probe that found the host reachable and did
\* not go to the power-off sequence
NotPoweredOff(r) ==
    r.op = "apagar_equipo" /\ Probed(r) /\ r.equipo_online /\ ~r.powered

\* C26, what holds in every state: such a request names permanent_on as the
\* reason whenever the permanent_on it read is set, and the new counter
\* otherwise; it hands update_status the new counter and nothing else; once
\* done it has succeeded, without a remote session, and the persisted
\* counter is the decremented one
C26_State ==
    \A p \in Procs :
        LET r == req[p]
            permanent_on == r.current_status.permanent_on
        IN NotPoweredOff(r) =>
              /\ permanent_on \/ r.new_peticions >= 1
              /\ r.new_peticions = floor0(r.current_status.peticions_ollama - 1)
              /\ permanent_on => r.reason = "permanent_on activat"
              /\ ~permanent_on =>
                    r.reason = "hi ha " \o ToString(r.new_peticions)
                                  \o " peticio(ns) activa(es)"
              /\ r.ssh = "none" /\ ~r.wol
              /\ InUpdate(r) =>
                    r.updates = ("peticions_ollama" :> r.new_peticions)
              /\ r.pc = "done" =>
                    /\ r.success /\ r.status_code = 200
                    /\ persisted.peticions_ollama = r.new_peticions
                    /\ persisted.permanent_on = permanent_on

\* C26, what holds of every step: the write of such a request leaves the
\* persisted permanent_on as it was
C26_Step ==
    \A p \in Procs :
        NotPoweredOff(req[p]) /\ Finishes(p) =>
            status_file'.data.permanent_on = persisted.permanent_on

\* C26: a shutdown-request on a reachable host that does not power off
\* persists the decremented counter and no other field of its own, takes no
\* remote action, reports success and names the reason: permanent_on when
\* it is set, even with a positive new counter, otherwise the new counter
\* of active requests.
C26_NoPowerOffNamesReason == []C26_State /\ [][C26_Step]_vars

\* C26 witness: with permanent_on set and counter 2, a shutdown-request on
\* a reachable host left counter 1 and named permanent_on
C26_Witness ==
    \E p \in Procs :
        /\ NotPoweredOff(req[p]) /\ req[p].pc = "done" /\ req[p].success
        /\ req[p].current_status.permanent_on
        /\ req[p].current_status.peticions_ollama = 2
        /\ persisted.peticions_ollama = 1
        /\ req[p].reason = "permanent_on activat"

\* C26, second witness: without permanent_on, counter 2 became 1 and the
\* reason names 1 active request
C26_WitnessCounter ==
    \E p \in Procs :
        /\ NotPoweredOff(req[p]) /\ req[p].pc = "done" /\ req[p].success
        /\ ~req[p].current_status.permanent_on
        /\ persisted.peticions_ollama = 1
        /\ req[p].reason = "hi ha 1 peticio(ns) activa(es)"

\* The step in which the update_status of a wake call or of a
\* shutdown-request writes
CounterWrite(p) ==
    /\ req[p].op \in {"arrancar_equipo", "apagar_equipo"}
    /\ InUpdate(req[p]) /\ Finishes(p)

\* C27, what holds of every step: the counter a wake call or a
\* shutdown-request persists is computed from the counter it read when it
\* started, one more or one less floored at 0, whatever the record holds
\* by the time it writes
C27_Step ==
    \A p \in Procs :
        LET r == req[p]
            read == r.current_status.peticions_ollama
        IN CounterWrite(p) =>
              /\ status_file'.data.peticions_ollama =
                    IF r.op = "arrancar_equipo" THEN read + 1 ELSE floor0(read - 1)
              /\ req'[p].stale = (persisted.peticions_ollama # read)

\* C27: wake calls and shutdown-requests that interleave lose counter
\* updates.  Each persists the counter it read at its start plus or minus
\* one, so two wake calls that both read c leave c + 1 (C27_Witness), and a
\* wake call and a shutdown-request that both read c leave c + 1 or c - 1,
\* where either sequential order leaves c (C27_WitnessWakeAndShutdown).
C27_CounterUpdatesCanBeLost == [][C27_Step]_vars

\* C27 witness: two wake calls both read counter 1 and both succeeded; the
\* second to write replaced a record that no longer held 1; the persisted
\* counter is 2, not 3
C27_Witness ==
    \E p, q \in Procs :
        /\ p # q
        /\ req[p].op = "arrancar_equipo" /\ Succeeded(req[p])
        /\ req[q].op = "arrancar_equipo" /\ Succeeded(req[q])
        /\ req[p].current_status.peticions_ollama = 1
        /\ req[q].current_status.peticions_ollama = 1
        /\ req[q].stale
        /\ persisted.peticions_ollama = 2

\* C27, second witness: a wake call and a shutdown-request both read
\* counter 1 and both succeeded; the wake call wrote last, over the 0 the
\* shutdown-request had left, and the persisted counter is 2 where either
\* sequential order leaves 1
C27_WitnessWakeAndShutdown ==
    \E p, q \in Procs :
        /\ p # q
        /\ req[p].op = "arrancar_equipo" /\ Succeeded(req[p])
        /\ req[q].op = "apagar_equipo" /\ Succeeded(req[q])
        /\ req[p].current_status.peticions_ollama = 1
        /\ req[q].current_status.peticions_ollama = 1
        /\ req[p].stale
        /\ persisted.peticions_ollama = 2

\* The step in which the shutdown-request p goes to the power-off sequence
InvokesPowerOff(p) ==
    /\ req[p].op = "apagar_equipo" /\ req[p].pc = "check_host"
    /\ req'[p].powered

\* C28, what is claimed of every step
C28_Step ==
    \A p \in Procs : InvokesPowerOff(p) => persisted.peticions_ollama <= 1

\* C28: in every interleaving of the requests, when a shutdown-request
\* invokes the power-off sequence the persisted counter is at most 1 at
\* that moment.
C28_PowerOffAtCounterAtMostOne == [][C28_Step]_vars

\* C29, what is claimed of every step
C29_Step ==
    \A p \in Procs : InvokesPowerOff(p) => ~persisted.permanent_on

\* C29: in every interleaving of the requests, when a shutdown-request
\* invokes the power-off sequence the persisted permanent_on is false at
\* that moment.
C29_PowerOffNeverUnderOverride == [][C29_Step]_vars

\* C30, what is claimed of every step
C30_Step ==
    \A p \in Procs :
        /\ req[p].op = "get_status" /\ req'[p] # req[p]
        /\ status_file.exists
        => /\ status_file'.data.peticions_ollama = persisted.peticions_ollama
           /\ status_file'.data.permanent_on = persisted.permanent_on

\* C30: in every interleaving of the requests, no step of a status read
\* changes the persisted counter or permanent_on.
C30_StatusReadKeepsCounterAndOverride == [][C30_Step]_vars

\* The step in which the wake call p, its probe having failed, comes to
\* call send_magic_packet
SendsWakeSignal(p) ==
    /\ req[p].op = "arrancar_equipo" /\ req[p].pc = "check_host"
    /\ req'[p].pc # "check_host"
    /\ ~req'[p].probe_raised /\ ~req'[p].equipo_online

\* C31, what holds in every state: a wake call that found the host
\* unreachable has called send_magic_packet by the time its update_status
\* is under way, and the call did not raise; when the call raised, the
\* request is over, with a 500
C31_State ==
    \A p \in Procs :
        LET r == req[p]
        IN r.op = "arrancar_equipo" /\ Probed(r) /\ ~r.equipo_online =>
              /\ r.wol
              /\ InUpdate(r) => ~r.wol_raised
              /\ r.wol_raised =>
                    r.pc = "done" /\ r.status_code = 500 /\ ~r.success

\* C31, what holds of every step: the step that sends the signal leaves
\* the counter, which a later step persists (unless the read_status of
\* update_status fails to load and returns without suspending); when
\* send_magic_packet raises the request ends in that step and the file
\* stays as it was
C31_Step ==
    \A p \in Procs :
        SendsWakeSignal(p) =>
            /\ req'[p].wol
            /\ status_file.exists /\ ~load_raises(status_file, base_file) =>
                  status_file'.data.peticions_ollama = persisted.peticions_ollama
            /\ send_magic_packet_raises =>
                  /\ req'[p].pc = "done" /\ req'[p].wol_raised
                  /\ req'[p].status_code = 500 /\ ~req'[p].success
                  /\ status_file' = status_file
            /\ ~send_magic_packet_raises => ~req'[p].wol_raised

\* C31: in a wake call with the host unreachable the wake signal is sent
\* before the incremented counter is persisted; when sending fails the
\* request ends with an error, the signal is not sent again and the
\* persisted counter keeps its value.
C31_SignalBeforeCounter == []C31_State /\ [][C31_Step]_vars

\* C31 witness: send_magic_packet raised in a wake call that had read
\* counter 1; the request ended with 500 and the persisted counter is 1
C31_Witness ==
    \E p \in Procs :
        /\ req[p].op = "arrancar_equipo" /\ req[p].pc = "done"
        /\ req[p].wol /\ req[p].wol_raised /\ req[p].status_code = 500
        /\ req[p].current_status.peticions_ollama = 1
        /\ persisted.peticions_ollama = 1

\* C31, second witness: the signal is sent and the counter still to be
\* persisted
C31_WitnessSentBeforePersisted ==
    \E p \in Procs :
        /\ req[p].op = "arrancar_equipo" /\ InUpdate(req[p])
        /\ req[p].wol /\ ~req[p].wol_raised
        /\ req[p].new_peticions = 2 /\ persisted.peticions_ollama = 1

\* A request that went to the power-off sequence, and the sequence as it ran
PoweredOff(r) == r.op \in {"apagar_equipo", "shutdown_force"} /\ r.powered

Sequence(r) == power_off_sequence(ssh_calls(r.ssh))

IsCommand(e) == e.call \in {"sudo shutdown", "shutdown"}

Commands(r) == SelectSeq(Sequence(r).events, IsCommand)

\* How often the sequence connected its fallback client
FallbackConnects(r) ==
    Cardinality({i \in DOMAIN Sequence(r).events :
                    /\ Sequence(r).events[i].call = "connect"
                    /\ Sequence(r).events[i].client = 2})

\* How far a request has come: the read of the handler, its own probe, its
\* own service or upstream request, the read inside update_status, the end
Rank(r) ==
    CASE r.pc = "idle" -> 0
      [] r.pc = "read_status:host" /\ r.caller = "handler" -> 1
      [] r.pc = "read_status:ollama" /\ r.caller = "handler" -> 2
      [] r.pc = "check_host" -> 3
      [] r.pc \in {"get_tags", "ping", "upstream", "relay"} -> 4
      [] r.pc = "read_status:host" /\ r.caller = "update_status" -> 5
      [] r.pc = "read_status:ollama" /\ r.caller = "update_status" -> 6
      [] OTHER -> 7

\* C32, what holds in every state: the sequence ran at most two commands,
\* the privileged one first; the plain one ran only after the privileged
\* one exited non-zero, on the second client, which was connected once and
\* only then; the sequence succeeded exactly when a command exited 0, and
\* the handler answered accordingly
C32_State ==
    \A p \in Procs :
        LET r == req[p]
            q == Sequence(r)
            cmds == Commands(r)
            nonzero == Len(cmds) >= 1 /\ cmds[1].result \notin {"0", "Exception"}
        IN PoweredOff(r) =>
              /\ Len(cmds) <= 2
              /\ Len(cmds) >= 1 =>
                    cmds[1].call = "sudo shutdown" /\ cmds[1].client = 1
              /\ Len(cmds) = 2 =>
                    /\ cmds[2].call = "shutdown" /\ cmds[2].client = 2
                    /\ nonzero
              /\ FallbackConnects(r) = IF nonzero THEN 1 ELSE 0
              /\ q.ok <=> \E i \in DOMAIN cmds : cmds[i].result = "0"
              /\ q.ok => InUpdate(r) \/ Succeeded(r)
              /\ ~q.ok =>
                    r.pc = "done" /\ ~r.success /\ r.status_code = q.status_code

\* C32, what holds of every step: a request only moves forward; no probe,
\* signal or write of it is gone through a second time
C32_Step ==
    \A p \in Procs :
        req'[p].pc # req[p].pc =>
            \/ req'[p].pc = "idle"
            \/ Rank(req'[p]) > Rank(req[p])

\* C32: one power-off sequence runs at most two remote commands, the
\* privileged shutdown first and the plain shutdown once, on a new
\* connection, only when the privileged one exited non-zero; it succeeds
\* when either exits 0 and fails when both exit non-zero.  No other step of
\* an operation is retried.
C32_AtMostTwoCommands == []C32_State /\ [][C32_Step]_vars

\* C32 witness: the privileged command failed and the plain one, on the
\* second connection, exited 0; the shutdown-request succeeded
C32_Witness ==
    \E p \in Procs :
        /\ req[p].op = "apagar_equipo" /\ req[p].powered /\ Succeeded(req[p])
        /\ req[p].ssh = "fallback_ok"
        /\ Len(Commands(req[p])) = 2
        /\ Commands(req[p])[1].result = "1" /\ Commands(req[p])[2].result = "0"

\* The places of the sequence where a connect answered with an
\* authentication failure
AuthFailures(r) ==
    {i \in DOMAIN Sequence(r).events :
        /\ Sequence(r).events[i].call = "connect"
        /\ Sequence(r).events[i].result = "AuthenticationException"}

\* C33: every authentication failure while connecting, on the first or on
\* the fallback connection, is answered with 401 (unauthorized), never with
\* the generic 500, and no command is attempted after it.
C33_AuthFailureIsUnauthorized ==
    \A p \in Procs :
        LET r == req[p]
            q == Sequence(r)
        IN PoweredOff(r) =>
              \A i \in AuthFailures(r) :
                  /\ r.pc = "done" /\ ~r.success /\ r.status_code = 401
                  /\ \A j \in DOMAIN q.events :
                         j > i => ~IsCommand(q.events[j])

\* C33 witness: the first connect failed to authenticate; the handler
\* answered 401 and ran no command
C33_Witness ==
    \E p \in Procs :
        /\ PoweredOff(req[p]) /\ req[p].pc = "done"
        /\ req[p].ssh = "auth" /\ AuthFailures(req[p]) = {1}
        /\ req[p].status_code = 401 /\ Commands(req[p]) = <<>>

\* C33, the case the code gets wrong: the fallback connect failed to
\* authenticate and the handler answered 500
C33_WitnessFallback ==
    \E p \in Procs :
        /\ PoweredOff(req[p]) /\ req[p].pc = "done"
        /\ req[p].ssh = "fallback_auth" /\ AuthFailures(req[p]) # {}
        /\ req[p].status_code = 500

\* The places of the sequence where a session was opened, and whether the
\* session opened at place i is closed further on
Opened(r) ==
    {i \in DOMAIN Sequence(r).events :
        /\ Sequence(r).events[i].call = "connect"
        /\ Sequence(r).events[i].result = "ok"}

ClosedAfter(r, i) ==
    \E j \in DOMAIN Sequence(r).events :
        /\ j > i
        /\ Sequence(r).events[j].call = "close"
        /\ Sequence(r).events[j].client = Sequence(r).events[i].client

\* C34: every remote session the power-off sequence opened, the first and
\* the fallback one, has been closed once the sequence is over, whichever
\* way it ended.
C34_SessionsClosed ==
    \A p \in Procs :
        PoweredOff(req[p]) =>
            \A i \in Opened(req[p]) : ClosedAfter(req[p], i)

\* C34 witness: the command of the first session raised, so that only the
\* finally clause closed it
C34_Witness ==
    \E p \in Procs :
        /\ PoweredOff(req[p]) /\ req[p].pc = "done"
        /\ req[p].ssh = "exec_error" /\ req[p].status_code = 500
        /\ Opened(req[p]) = {1} /\ ClosedAfter(req[p], 1)

\* C34 witness: both sessions were opened and the fallback command raised
C34_WitnessFallback ==
    \E p \in Procs :
        /\ PoweredOff(req[p]) /\ req[p].pc = "done"
        /\ req[p].ssh = "fallback_exec_error"
        /\ Cardinality(Opened(req[p])) = 2
        /\ \A i \in Opened(req[p]) : ClosedAfter(req[p], i)

\* The two flags, and for each the local of the handler that holds what its
\* own probe gave (ollama_online stays False when the service was not
\* asked)
Flags == {"logical_on", "phisical_on"}

probe_of(r, k) == IF k = "phisical_on" THEN r.equipo_online ELSE r.ollama_online

\* The power-off sequence of the request succeeded
PowerOffDone(r) == PoweredOff(r) /\ ssh_shutdown(r.ssh).ok

\* C35: logical_on and phisical_on are observations: every value an
\* operation writes to either flag is the result of a live probe made by
\* that operation; no operation writes a flag value it did not observe.
C35_FlagsAreObservations ==
    \A p \in Procs :
        InUpdate(req[p]) =>
            \A k \in Flags \cap DOMAIN req[p].updates :
                req[p].updates[k] = probe_of(req[p], k)

\* C35 as the code has it, what holds in every state: a flag an update
\* names carries what the handler's own probe gave, or, after a power-off
\* sequence that succeeded, both flags are named and carry False; the two
\* override operations name no flag
C35_State ==
    \A p \in Procs :
        LET r == req[p] IN
        InUpdate(r) =>
            /\ r.op \in Toggles => Flags \cap DOMAIN r.updates = {}
            /\ IF PowerOffDone(r)
               THEN /\ Flags \subseteq DOMAIN r.updates
                    /\ \A k \in Flags : r.updates[k] = FALSE
                    /\ r.equipo_online
               ELSE \A k \in Flags \cap DOMAIN r.updates :
                        r.updates[k] = probe_of(r, k)

\* C35 as the code has it, what holds of every step that changes a flag of
\* the record: the step is the return of a read_status; a flag the update
\* names gets the value the update carries, and for the operations that
\* make no probe of their own the other flags get what read_status observed
C35_Step ==
    \A p \in Procs :
        (req'[p] # req[p] /\ status_file'.exists) =>
            \A k \in Flags :
                (~status_file.exists \/ status_file'.data[k] # persisted[k]) =>
                    /\ ReadStatusReturns(p) \/ EntersReadStatus(p)
                    /\ IF req[p].caller = "update_status" /\ k \in DOMAIN req[p].updates
                       THEN status_file'.data[k] = req[p].updates[k]
                       ELSE keeps_observed(req[p].op) /\ ReadStatusReturns(p) =>
                              status_file'.data[k] = req'[p].observed[
                                 IF k = "phisical_on" THEN "equipo_online"
                                 ELSE "ollama_online"]

\* C35, amended: a flag is written either with the result of a live probe
\* made by the operation or, after a power-off sequence that succeeded,
\* with False for both flags; the override operations set no flag.
C35_FlagsObservedOrPoweredOff == []C35_State /\ [][C35_Step]_vars

\* C35 witness: the shutdown-request probed the host as reachable, its
\* power-off sequence succeeded, and the record has both flags False
C35_Witness ==
    \E p \in Procs :
        /\ req[p].op = "apagar_equipo" /\ PowerOffDone(req[p])
        /\ Succeeded(req[p]) /\ req[p].equipo_online
        /\ ~persisted.phisical_on /\ ~persisted.logical_on

\* C35 witness: a test persisted its two observations, the service found
\* responding
C35_WitnessObserved ==
    \E p \in Procs :
        /\ req[p].op = "test_ia" /\ Succeeded(req[p])
        /\ req[p].equipo_online /\ req[p].ollama_online
        /\ persisted.phisical_on /\ persisted.logical_on

\* C36: in every reachable state of the persisted record, under any
\* interleaving of the operations, started from a record with both flags
\* false, logical_on implies phisical_on: the service is never recorded as
\* responding on a host recorded as unreachable.
C36_ServiceOnlyOnHost ==
    status_file.exists => (persisted.logical_on => persisted.phisical_on)

\* C36 witness: both flags are recorded true while two requests are under
\* way, one of them about to write what it probed before
C36_Witness ==
    /\ status_file.exists
    /\ persisted.logical_on /\ persisted.phisical_on
    /\ \A p \in Procs : req[p].pc \notin {"idle", "done"}
    /\ \E p \in Procs : InUpdate(req[p]) /\ ~req[p].equipo_online

\* C36 witness: the host is recorded as reachable, the service as not
\* responding
C36_WitnessHostOnly ==
    /\ status_file.exists
    /\ persisted.phisical_on /\ ~persisted.logical_on

\* The operations whose update names the counter, and those whose update
\* names the override
NamesCounter ==
    {"arrancar_equipo", "apagar_equipo", "init_status", "shutdown_force"}

NamesOverride == Toggles \cup {"init_status", "shutdown_force"}

\* C37, what holds of every step: a step of an operation whose update does
\* not name the counter leaves the counter of the record as it is, and
\* likewise for the override
C37_Step ==
    \A p \in Procs :
        (req'[p] # req[p] /\ status_file.exists /\ status_file'.exists) =>
            /\ req'[p].op \notin NamesCounter =>
                  status_file'.data.peticions_ollama = persisted.peticions_ollama
            /\ req'[p].op \notin NamesOverride =>
                  status_file'.data.permanent_on = persisted.permanent_on

\* C37: update_status changes only the fields its update names, and message,
\* datetime and the reconciled flags: an operation that names neither the
\* counter nor the override never changes their persisted values, whatever
\* the load and the probes of its read_status give.
C37_UpdateKeepsUnnamedFields == [][C37_Step]_vars

\* C37 witness: the load inside an override-on request failed; the request
\* succeeded and the record, which had counted a wake, has counter 0
C37_Witness ==
    \E p \in Procs :
        /\ req[p].op = "permanent_on_enable" /\ Succeeded(req[p])
        /\ fault = "load"
        /\ status_file.exists
        /\ persisted.permanent_on /\ persisted.peticions_ollama = 0
        /\ persisted.datetime = clock /\ req[p].replaced < clock

\* The record holds what the request that just succeeded reported to have
\* written
WritePersisted(r) ==
    /\ status_file.exists
    /\ r.op \in Toggles =>
          persisted.permanent_on = (r.op = "permanent_on_enable")
    /\ r.op \in {"arrancar_equipo", "apagar_equipo"} =>
          persisted.peticions_ollama = r.new_peticions
    /\ r.op = "init_status" => persisted = r.new_status
    /\ r.op = "shutdown_force" =>
          persisted.peticions_ollama = 0 /\ ~persisted.permanent_on
    /\ r.op = "test_ia" =>
          /\ persisted.phisical_on = r.equipo_online
          /\ persisted.logical_on = r.ollama_online

\* C38: no operation swallows a state-changing failure: an operation that
\* answers success has sent the wake signal it reports, has run the
\* power-off it reports, and has persisted the record it reports to have
\* written.
C38_SuccessMeansPersisted ==
    \A p \in Procs :
        LET r == req[p] IN
        (Succeeded(r) /\ r.op \in Ops \ {"get_status"}) =>
            /\ r.wol => ~r.wol_raised
            /\ r.powered => ssh_shutdown(r.ssh).ok
            /\ WritePersisted(r)

\* C38 witness: writing the record failed inside an override-on request;
\* the request answered success and the record has the override off
C38_Witness ==
    \E p \in Procs :
        /\ req[p].op = "permanent_on_enable" /\ Succeeded(req[p])
        /\ fault = "write_status"
        /\ status_file.exists /\ ~persisted.permanent_on

\* C38 witness: the wake signal could not be sent and the request failed
C38_WitnessSignal ==
    \E p \in Procs :
        /\ req[p].op = "arrancar_equipo" /\ req[p].pc = "done"
        /\ req[p].wol_raised /\ ~req[p].success /\ req[p].status_code = 500

\* A streamed request whose probe found the host reachable, once it is over
Streamed(r) ==
    /\ r.op \in StreamOps /\ r.stream /\ r.pc = "done"
    /\ r.equipo_online /\ ~r.probe_raised

\* C39: in streamed mode, host reachable, the upstream connection stays
\* open until the relay has finished: the upstream request is made, every
\* chunk the upstream produces is relayed, in order and one for one, and
\* the transfer fails when the upstream's first status is not 200.
C39_StreamRelaysEveryChunk ==
    \A p \in Procs :
        LET r == req[p] IN
        Streamed(r) =>
            /\ r.client = "open"
            /\ r.upstream \in OllamaOutcomes
            /\ r.relayed = r.offered
            /\ r.upstream # "200" => ~r.success

\* C39 witness: the upstream held a 200 and two chunks for a streamed
\* generate; the relay ran on the closed client and the caller, who had been
\* answered 200, got no chunk
C39_Witness ==
    \E p \in Procs :
        /\ req[p].op = "ollama_generate" /\ Streamed(req[p])
        /\ req[p].client = "closed" /\ req[p].upstream = "client_closed"
        /\ req[p].offered = Chunks(MaxChunks) /\ req[p].relayed = <<>>
        /\ req[p].status_code = 200 /\ ~req[p].success

====
